---- MODULE Spec2Model ----
(***************************************************************************)
(* Model of the export pipeline of the Stage editor: the image store and   *)
(* editor store (src/lib/store/index.ts), the canvas renderer              *)
(* (src/components/canvas/ClientCanvas.tsx, CanvasToolbar.tsx), the export *)
(* hook (src/hooks/useExport.ts), the export orchestrator exportElement    *)
(* and the canvas post-processing helpers.                                 *)
(*                                                                         *)
(* One action is one browser task: an event handler together with the      *)
(* React re-render and effects it triggers, or the continuation of an      *)
(* async function from one await to the next.                              *)
(***************************************************************************)
EXTENDS Integers, Sequences, FiniteSets, TLC

VARIABLES
    uploadedImageUrl,   \* useImageStore: string | null
    borderRadius,       \* useImageStore
    perspective3D,      \* useImageStore
    imageOpacity,       \* useImageStore, in percent
    selectedAspectRatio,\* useImageStore
    screenshot,         \* useEditorStore: [src, radius]
    image,              \* ClientCanvas state: the loaded image (its src) or NULL
    pendingLoads,       \* window.Image objects whose onload/onerror is
                        \* outstanding: how many of them per src
    globalKonvaStage,   \* module-level handle of ClientCanvas
    cards,              \* the #image-render-card nodes created so far
    isExporting,        \* useExport state
    exportDialogOpen,   \* EditorLeftPanel state
    ops,                \* the exportImage / copyImage calls in flight, and
                        \* those settled since the last call was made
    started,            \* number of calls made (bounded)
    edits,              \* number of editor actions taken (bounded)
    canvases,           \* heap of HTMLCanvasElement objects: id -> pixel content
    lastCall,           \* the last canvas helper call: its input, output, parameter
    pendingNoise,       \* post-processing runs waiting for the noise texture image
    bodyNodes,          \* temporary nodes that are children of document.body
    calls,              \* calls of the functions that create temporary nodes
    prefsStore,         \* IndexedDB object store "preferences": its records
    idbCalls,           \* saveExportPreferences / getExportPreferences calls
    idbQueue,           \* their transactions, in the order of creation
    lastSaved,          \* the values of the most recent completed save
    settings,           \* useExport state
    renderedSettings,   \* the settings captured by the callbacks of the last render
    userSet,            \* what updateFormat / updateQuality / updateScale were given
    mountId,            \* the mounted instance of the hook, 0 before the first mount
    objects,            \* CanvasContext state: the list of canvas objects
    pendingImages,      \* addImage calls awaiting their image: the objects their
                        \* saveState captured
    nextObjectId,       \* number of object ids handed out so far
    history,            \* historyRef.current: [past, present, future]
    collageOp,          \* the last operation of the collage editor and the
                        \* objects and history it found
    collageStage,       \* CanvasContext state: are stage and layer set
    savedObjects,       \* localStorage: <<list>> under CANVAS_OBJECTS_KEY, <<>>
                        \* when the key is not set
    pendingRestores,    \* the lists initializeCanvas and loadDesign are
                        \* restoring, awaiting their images
    collageCalls,       \* calls of the collage editor made so far
    stageModules,       \* per module defining CanvasRenderer: the mounted
                        \* renderer, globalKonvaStage and the pending timeouts
    imageOverlays,      \* useImageStore: the list of image overlays
    overlayRuns,        \* the runs of loadOverlays, one per version of the list
    loadedOverlayImages,\* CanvasRenderer state: ids of the overlays with an image
    imageShadow,        \* useImageStore
    editorShadow,       \* useEditorStore: shadow
    shadowOp            \* the last change of imageShadow that useEditorStoreSync saw

storeVars  == <<uploadedImageUrl, borderRadius, perspective3D, imageOpacity,
                selectedAspectRatio, screenshot>>
canvasVars == <<image, pendingLoads, globalKonvaStage, cards>>
hookVars   == <<isExporting, exportDialogOpen, ops, started>>
bitmapVars == <<canvases, lastCall, pendingNoise>>
domVars    == <<bodyNodes, calls>>
coreVars   == <<storeVars, canvasVars, hookVars, edits, bitmapVars, domVars>>
prefsVars  == <<prefsStore, idbCalls, idbQueue, lastSaved, settings, renderedSettings, userSet, mountId>>
collageVars == <<objects, pendingImages, nextObjectId, history, collageOp, collageStage, savedObjects, pendingRestores, collageCalls>>
stageVars == <<stageModules>>
overlayVars == <<imageOverlays, overlayRuns, loadedOverlayImages>>
shadowVars == <<imageShadow, editorShadow, shadowOp>>
otherLaterVars == <<collageVars, stageVars, overlayVars, shadowVars>>
notStageVars == <<coreVars, prefsVars, collageVars, overlayVars, shadowVars>>
notCollageVars == <<coreVars, prefsVars, stageVars, overlayVars, shadowVars>>
notOverlayVars == <<coreVars, prefsVars, collageVars, stageVars, shadowVars>>
laterVars  == <<prefsVars, otherLaterVars>>
notPrefsVars == <<coreVars, otherLaterVars>>
vars == <<coreVars, laterVars>>

(***************************************************************************)
(* Bounds                                                                  *)
(***************************************************************************)
MaxEdits == 3       \* editor actions (uploads, store setters) per behaviour
MaxOps == 2         \* export / copy calls per behaviour
MaxLiveEdits == 2   \* editor actions per behaviour when liveness is checked
MaxCanvases == 2    \* canvas objects in the bitmap heap
MaxLayers == 2      \* draw operations recorded per canvas
MaxBgCanvases == 4  \* canvas objects created by background exports
MaxPieces == 2      \* pieces of a CSS value given to the colour normalizer
MaxCalls == 2       \* calls of the functions that create temporary nodes
MaxIdbCalls == 3    \* calls of the preferences storage functions
MaxObjects == 2      \* object ids the collage editor hands out
MaxHistory == 3      \* entries of historyRef.current.past
MaxRestores == 2     \* restores of saved objects pending at a time
MaxCollageCalls == 6 \* calls of the collage editor per behaviour
MaxOverlays == 2     \* image overlays in the list
MaxOverlayRuns == 3  \* versions of imageOverlays per behaviour
MaxMounts == 4      \* CanvasRenderer instances mounted per module

NULL == "null"
Urls == {"blob:u1", "blob:u2"}
\* URL.createObjectURL gives a new URL at each call: the URL handleFile makes
\* and the URL setImage makes for the same file
ObjectUrlPairs == {<<"blob:u1", "blob:u2">>}

\* the loads ClientCanvas has started and never cancels, as a multiset
NoLoads == [u \in Urls |-> 0]
StartLoad(pending, u) == [pending EXCEPT ![u] = @ + 1]
EndLoad(pending, u) == [pending EXCEPT ![u] = @ - 1]
Loading(pending) == {u \in Urls : pending[u] > 0}
Radii == {0, 12}
Angles == {0, 30}
\* the fields of perspective3D the editor's controls are moved on
PerspectiveFields == {"rotateX", "scale"}
Scales == {1, 2}
Opacities == {50, 100}
AspectKeys == {"16_9", "bogus"}

(***************************************************************************)
(* JavaScript values as they reach exportElement: the call in useExport is *)
(* positional, so a parameter may receive a value of another type.         *)
(***************************************************************************)
IdentityPerspective ==
    [rotateX |-> 0, rotateY |-> 0, rotateZ |-> 0,
     translateX |-> 0, translateY |-> 0, scale |-> 1]

Undefined == [t |-> "undefined", s |-> "", n |-> 0, o |-> IdentityPerspective]
Str(x) == [t |-> "string", s |-> x, n |-> 0, o |-> IdentityPerspective]
Num(x) == [t |-> "number", s |-> "", n |-> x, o |-> IdentityPerspective]
Obj(p) == [t |-> "object", s |-> "", n |-> 0, o |-> p]

\* JavaScript truthiness, as used by `a && b` and `x || undefined`
Truthy(v) ==
    CASE v.t = "undefined" -> FALSE
      [] v.t = "string" -> v.s # ""
      [] v.t = "number" -> v.n # 0
      [] OTHER -> TRUE

\* property read v.f: a string or a number has no such own property
GetProp(v, f) == IF v.t = "object" THEN Num(v.o[f]) ELSE Undefined

\* a !== b
StrictNotEqual(a, b) == a # b

\* has3DTransform: the same expression in CanvasRenderer and in exportElement
Has3DTransform(p) ==
    \/ StrictNotEqual(GetProp(p, "rotateX"), Num(0))
    \/ StrictNotEqual(GetProp(p, "rotateY"), Num(0))
    \/ StrictNotEqual(GetProp(p, "rotateZ"), Num(0))
    \/ StrictNotEqual(GetProp(p, "translateX"), Num(0))
    \/ StrictNotEqual(GetProp(p, "translateY"), Num(0))
    \/ StrictNotEqual(GetProp(p, "scale"), Num(1))

(***************************************************************************)
(* CanvasRenderer: what is on the page after a render                      *)
(***************************************************************************)
KonvaImageOpacity_Always(p, opacity) == opacity

\* <KonvaImage opacity={has3DTransform ? 0 : imageOpacity} />
KonvaImageOpacity(p, opacity) == IF Has3DTransform(Obj(p)) THEN 0 ELSE opacity

\* What CanvasRenderer renders under #image-render-card: the inner
\* `position: relative` div and, when has3DTransform, the 3D overlay div.
RenderCanvas(p, opacity) ==
    [attached |-> TRUE,
     inner |-> TRUE,
     overlay |-> Has3DTransform(Obj(p)),
     flatOpacity |-> KonvaImageOpacity(p, opacity)]

\* ClientCanvas renders CanvasRenderer only while `image` is set.  Each mount
\* of CanvasRenderer creates a new #image-render-card node and a new Konva
\* stage; a re-render updates the mounted node; an unmount detaches the node,
\* which keeps the children it had.  cards[g] is the node of the g-th mount.
CommitCards(old, wasMounted, isMounted, p, opacity) ==
    IF isMounted
      THEN IF wasMounted
             THEN [old EXCEPT ![Len(old)] = RenderCanvas(p, opacity)]
             ELSE Append(old, RenderCanvas(p, opacity))
      ELSE IF wasMounted
             THEN [old EXCEPT ![Len(old)].attached = FALSE]
             ELSE old

\* the effect of CanvasRenderer that publishes the stage, and its cleanup;
\* a stage is named by the number of the mount that created it, 0 is null
StageAfterCommit(newCards, isMounted) == IF isMounted THEN Len(newCards) ELSE 0

\* document.getElementById('image-render-card'): the attached node, 0 if none
GetElementById(cs) ==
    IF Len(cs) > 0 /\ cs[Len(cs)].attached THEN Len(cs) ELSE 0

\* useEditorStoreSync: screenshot.src and screenshot.radius follow the image store
SyncScreenshot(url, radius) == [src |-> url, radius |-> radius]

(***************************************************************************)
(* Aspect-ratio presets                                                    *)
(***************************************************************************)
NoPreset == [width |-> 0, height |-> 0]

getAspectRatioPreset(key) ==
    CASE key = "16_9" -> [width |-> 1920, height |-> 1080]
      [] key = "1_1" -> [width |-> 1080, height |-> 1080]
      [] OTHER -> NoPreset

(***************************************************************************)
(* Errors and the record of one exportImage / copyImage call               *)
(***************************************************************************)
NoError == [isError |-> FALSE, message |-> "", source |-> "none"]
Error(msg, src) == [isError |-> TRUE, message |-> msg, source |-> src]
\* a rejection whose reason is not an Error object (img.onerror = reject)
NonError(src) == [isError |-> FALSE, message |-> "", source |-> src]

NoResult == [dataURL |-> "unset", blob |-> "unset"]
DataURLs == {"", "data:,", "data:image/png;base64,iVBOR"}
Blobs == {"null", "image/png"}

\* the arguments useExport passes to exportElement after textOverlays
ExportElementArgs(p3d, shot) ==
    << Obj(p3d),
       IF Truthy(IF shot.src = NULL THEN Undefined ELSE Str(shot.src))
         THEN Str(shot.src) ELSE Undefined,
       Num(shot.radius) >>

Arg(args, i) == IF i <= Len(args) THEN args[i] ELSE Undefined

\* the parameters of exportElement that follow textOverlays, bound by position
BindExportElementParams(args) ==
    [imageOverlays |-> Arg(args, 1),
     perspective3D |-> Arg(args, 2),
     imageSrc |-> Arg(args, 3),
     screenshotRadius |-> Arg(args, 4)]

NewOp(kind, stage, key, params) ==
    [kind |-> kind,              \* "export" (exportImage) or "copy" (copyImage)
     pc |-> "start",
     konvaStage |-> stage,       \* getKonvaStage() at the call
     aspect |-> key,
     params |-> params,
     calledExportElement |-> FALSE,
     checked |-> FALSE,          \* has exportElement looked up its element
     element |-> 0,              \* the node getElementById returned, 0 is null
     faults |-> {},              \* what failed under this call
     log |-> <<>>,               \* the work done, in order
     canvas |-> <<>>,            \* pixel content of konvaCanvas
     flatSuppressed |-> "na",    \* was the flat image at opacity 0 when rasterized
     transformActive |-> "na",   \* exportElement's has3DTransform
     captureAttempted |-> "na",  \* was capture3DTransformWithModernScreenshot called
     captureFailed |-> FALSE,    \* 3D active but no 3D layer obtained
     absorbed |-> {},            \* errors caught and not rethrown
     encoded |-> NoResult,       \* what toBlob and toDataURL produced
     result |-> NoResult,        \* what exportElement returned
     err |-> NoError,            \* the rejection reason
     thrown |-> 0,               \* errors that reached the caller
     call |-> 0,                 \* the number of the call
     link |-> 0,                 \* the download anchor the call created, 0 if none
     container |-> 0]            \* the capturer's temporary container while it
                                 \* is attached to document.body, 0 if none

\* bookkeeping: the environment made `what` fail under this call
Faulted(op, what, failed) ==
    IF failed THEN [op EXCEPT !.faults = @ \cup {what}] ELSE op

Logged(op, ev) == [op EXCEPT !.log = Append(@, ev)]

Settled(op) == op.pc \in {"resolved", "rejected"}

\* the catch block of exportImage / copyImage: rethrows one new Error
HookCatch(op, e) ==
    [op EXCEPT
       !.pc = "rejected",
       !.err = Error(IF e.isError THEN e.message
                     ELSE IF op.kind = "export"
                            THEN "Failed to export image. Please try again."
                            ELSE "Failed to copy image to clipboard. Please try again.",
                     e.source),
       !.thrown = @ + 1]

PreconditionError_NoElementCheck(element, konvaStage) ==
    IF konvaStage = 0 THEN Error("Konva stage not found", "precondition")
    ELSE NoError

\* exportElement: the two checks after the 200 ms wait
PreconditionError(element, konvaStage) ==
    IF element = 0
      THEN Error("Image render card not found. Please ensure an image is uploaded.",
                 "precondition")
    ELSE IF konvaStage = 0 THEN Error("Konva stage not found", "precondition")
    ELSE NoError

(***************************************************************************)
(* exportElement, one await at a time                                      *)
(***************************************************************************)
\* ctx.drawImage(src, ...) onto a canvas: the drawn layer is added on top
DrawImage(pixels, layer) == Append(pixels, layer)

\* exportElement after the 200 ms wait: the checks, then exportKonvaStage up
\* to stage.toDataURL and the load of its result into an image
RasterStart(op, element, cs) ==
    LET e == PreconditionError(element, op.konvaStage)
        seen == [op EXCEPT !.checked = TRUE, !.element = element]
    IN
    IF e # NoError THEN HookCatch(seen, e)
    ELSE IF op.konvaStage = 0
      THEN HookCatch(seen, Error("Konva stage not found", "raster"))
    ELSE [Logged(seen, "rasterize") EXCEPT
            !.pc = "raster_load",
            !.flatSuppressed = IF cs[op.konvaStage].overlay THEN "yes" ELSE "no"]

\* finalCanvas.toBlob(...): encoding starts
StartEncode(op) ==
    IF Settled(op) THEN op
    ELSE [Logged(op, "toBlob") EXCEPT !.pc = "blob_wait"]

CaptureCaught_Rethrow(op) ==
    HookCatch(op, Error("3D overlay element not found", "capture"))

\* the catch around the 3D capture: console.warn, console.error, go on
CaptureCaught(op) ==
    [op EXCEPT !.absorbed = @ \cup {"capture"}, !.captureFailed = TRUE]

\* the temporary container of the capturer of a call
ContainerNode(op) == op.call

\* step 2 of exportElement up to the first await of the capturer, which has
\* appended its temporary container to document.body by then
Gate3D(op, cs) ==
    LET p == op.params.perspective3D
        src == op.params.imageSrc
        cur == GetElementById(cs)
    IN
    IF ~(Truthy(p) /\ Truthy(src)) \/ ~Has3DTransform(p)
      THEN StartEncode([op EXCEPT !.transformActive = "no",
                                  !.captureAttempted = "no"])
    ELSE IF op.element = 0
      \* element.querySelector on null throws inside the try
      THEN StartEncode(CaptureCaught([op EXCEPT !.transformActive = "yes",
                                                !.captureAttempted = "no"]))
    ELSE IF ~(cs[op.element].overlay /\ cs[op.element].inner)
      THEN StartEncode([op EXCEPT !.transformActive = "yes",
                                  !.captureAttempted = "no",
                                  !.captureFailed = TRUE])
    ELSE IF cur = 0 \/ ~cs[cur].overlay
      \* capture3DTransformWithModernScreenshot throws before its first await
      THEN StartEncode(CaptureCaught(
             [Logged(op, "capture") EXCEPT !.transformActive = "yes",
                                           !.captureAttempted = "yes"]))
    ELSE [Logged(op, "capture") EXCEPT !.transformActive = "yes",
                                       !.captureAttempted = "yes",
                                       !.container = ContainerNode(op),
                                       !.pc = "capture_wait"]

\* exportKonvaStage from the image load to the resized canvas, then step 2
RasterLoaded(op, outcome, cs) ==
    CASE outcome = "onerror" -> HookCatch(op, NonError("raster"))
      [] outcome = "noctx" ->
           HookCatch(op, Error("Failed to get canvas context", "raster"))
      [] OTHER ->
           Gate3D([Logged(op, "resize") EXCEPT !.canvas = <<"stage">>], cs)

\* the capturer after its 100 ms wait: domToCanvas is called
CaptureTimer(op) == [op EXCEPT !.pc = "capture_dom"]

\* compositeCtx.drawImage(transformedCanvas, ...) on konvaCanvas
Paste3D(op) == [Logged(op, "paste") EXCEPT !.canvas = DrawImage(@, "3d")]

\* finally { document.body.removeChild(tempContainer) } of the capturer
CaptureFinally(op) == [op EXCEPT !.container = 0]

\* domToCanvas settles and the capturer's finally block runs; the paste; then
\* encoding starts
CaptureDone(op, outcome) ==
    CASE outcome = "throws" -> StartEncode(CaptureCaught(CaptureFinally(op)))
      [] outcome = "empty" -> StartEncode([CaptureFinally(op) EXCEPT !.captureFailed = TRUE])
      [] OTHER -> StartEncode(Paste3D(CaptureFinally(op)))

IsDegenerateDataURL_EmptyOnly(url) == url = ""

\* exportElement: !dataURL || dataURL === 'data:,'
IsDegenerateDataURL(url) == url = "" \/ url = "data:,"

\* exportImage / copyImage: !result.dataURL || result.dataURL === 'data:,'
HookResultInvalid(url) == url = "" \/ url = "data:,"

\* exportElement from the toBlob callback to its return or throw
EncodeDone(op, blob, url) ==
    IF blob = "null"
      THEN HookCatch([op EXCEPT !.encoded = [dataURL |-> "unset", blob |-> blob]],
                     Error("Failed to create blob from canvas", "encode"))
    ELSE IF IsDegenerateDataURL(url)
      THEN HookCatch([Logged(op, "toDataURL") EXCEPT
                        !.encoded = [dataURL |-> url, blob |-> blob]],
                     Error("Failed to generate image data URL", "encode"))
    ELSE [Logged(op, "toDataURL") EXCEPT
            !.encoded = [dataURL |-> url, blob |-> blob],
            !.result = [dataURL |-> url, blob |-> blob],
            !.pc = "returned"]

(***************************************************************************)
(* useExport: what follows the return of exportElement                     *)
(***************************************************************************)
TrackEvent_NoCatch(op, umami) ==
    IF Settled(op) THEN op
    ELSE CASE umami = "absent" -> op
           [] umami = "throws" ->
                HookCatch(Logged(op, "analytics"),
                          Error("umami.track failed", "analytics"))
           [] OTHER -> Logged(op, "analytics")

\* trackEvent: window.umami may be absent; a throwing tracker is caught
TrackEvent(op, umami) ==
    IF Settled(op) THEN op
    ELSE CASE umami = "absent" -> op
           [] umami = "throws" ->
                [Logged(op, "analytics") EXCEPT !.absorbed = @ \cup {"analytics"}]
           [] OTHER -> Logged(op, "analytics")

\* exportImage after exportElement returned: its own check of the data URL,
\* then the call of saveExportedImage
ExportAfterEncode(op) ==
    IF Settled(op) THEN op
    ELSE IF HookResultInvalid(op.result.dataURL)
      THEN HookCatch(op, Error("Invalid image data generated", "validation"))
    ELSE [Logged(op, "persist") EXCEPT !.pc = "save_wait"]

CopyAfterEncode_SilentNoop(op, clipboardSupported) ==
    IF Settled(op) THEN op
    ELSE IF HookResultInvalid(op.result.dataURL)
      THEN HookCatch(op, Error("Invalid image data generated", "validation"))
    ELSE IF clipboardSupported
      THEN [Logged(op, "clipboard") EXCEPT !.pc = "clip_wait"]
    ELSE [op EXCEPT !.pc = "resolved"]

\* copyImage after exportElement returned: the blob is already image/png;
\* navigator.clipboard.write is called when the platform has it
CopyAfterEncode(op, clipboardSupported) ==
    IF Settled(op) THEN op
    ELSE IF HookResultInvalid(op.result.dataURL)
      THEN HookCatch(op, Error("Invalid image data generated", "validation"))
    ELSE IF clipboardSupported
      THEN [Logged(op, "clipboard") EXCEPT !.pc = "clip_wait"]
    ELSE HookCatch(op, Error("Clipboard API not supported", "clipboard"))

SaveCaught_Rethrow(op) ==
    HookCatch(op, Error("Failed to save export to IndexedDB", "persist"))

\* the catch around saveExportedImage: console.warn, go on to the download
SaveCaught(op) == [op EXCEPT !.absorbed = @ \cup {"persist"}]

\* document.body.appendChild(node), removeChild(node)
AppendChild(body, node) == body \cup {node}
RemoveChild(body, node) == body \ {node}

\* the anchor a call of exportImage creates; the nodes of the functions that
\* create temporary nodes are numbered from 1
LinkNode(op) == 0 - op.call

\* the anchor carrying the data URL is appended to document.body and clicked,
\* its removal is left to a timer, then the function returns
Download(op) ==
    IF Settled(op) THEN op
    ELSE [Logged(op, "download") EXCEPT !.pc = "resolved", !.link = LinkNode(op)]

\* exportImage from the settling of saveExportedImage to its end
SaveDone(op, saveOk, umami) ==
    Download(TrackEvent(IF saveOk THEN Logged(op, "persisted") ELSE SaveCaught(op),
                        umami))

\* copyImage from the settling of navigator.clipboard.write to its end
ClipboardDone(op, writeOk, umami) ==
    IF writeOk
      THEN LET t == TrackEvent(Logged(op, "clipboard_written"), umami) IN
           IF Settled(t) THEN t ELSE [t EXCEPT !.pc = "resolved"]
      ELSE HookCatch(op, Error("Write permission denied.", "clipboard"))

HookPrologue_TrackFirst(kind, stage, key, args, n) ==
    LET op == Logged([NewOp(kind, stage, key, BindExportElementParams(args)) EXCEPT !.call = n],
                     "analytics") IN
    IF getAspectRatioPreset(key) = NoPreset
      THEN HookCatch(op, Error("Invalid aspect ratio selected", "precondition"))
      ELSE [op EXCEPT !.pc = "wait_dom", !.calledExportElement = TRUE]

\* the n-th call of exportImage / copyImage up to the first await
HookPrologue(kind, stage, key, args, n) ==
    LET op == [NewOp(kind, stage, key, BindExportElementParams(args)) EXCEPT !.call = n] IN
    IF getAspectRatioPreset(key) = NoPreset
      THEN HookCatch(op, Error("Invalid aspect ratio selected", "precondition"))
      ELSE [op EXCEPT !.pc = "wait_dom", !.calledExportElement = TRUE]


(***************************************************************************)
(* Initial state: the stores as created, nothing mounted                   *)
(***************************************************************************)
NoCall == [name |-> "none", input |-> 0, before |-> <<>>, output |-> 0,
           neutral |-> FALSE, ctxOk |-> TRUE, allocated |-> 0]

(***************************************************************************)
(* Export preferences: values.  quality is in percent.                     *)
(***************************************************************************)
NoPrefs == [format |-> "none", quality |-> 0, scale |-> 0]
DEFAULT_SETTINGS == [format |-> "png", quality |-> 95, scale |-> 3]
SettingFields == {"format", "quality", "scale"}
NothingSet == [format |-> "unset", quality |-> 0, scale |-> 0]

\* the two modules that define CanvasRenderer, globalKonvaStage and getKonvaStage
StageModuleNames == {"ClientCanvas.tsx", "CanvasToolbar.tsx"}
\* let globalKonvaStage = null, no renderer mounted; a stage carries the
\* number of the renderer instance that created it, 0 is null
NoRenderer == [mounted |-> 0, made |-> 0, global |-> 0, timers |-> {}]

\* historyRef.current = { past: [], present: [], future: [] }
\* localStorage.getItem(CANVAS_OBJECTS_KEY) is null
NotSaved == <<>>

EmptyHistory == [past |-> <<>>, present |-> <<>>, future |-> <<>>]
\* no operation yet; Before is what the operation found, BeforePrev what the
\* operation before it found
NoCollageOp == [name |-> "none", objectsBefore |-> <<>>, historyBefore |-> EmptyHistory, prevName |-> "none", objectsBeforePrev |-> <<>>, historyBeforePrev |-> EmptyHistory]

\* useImageStore: imageShadow
DefaultImageShadow == [enabled |-> FALSE, blur |-> 10, offsetX |-> 0, offsetY |-> 4, color |-> "rgba(0, 0, 0, 0.3)"]
\* useEditorStore: shadow
DefaultEditorShadow == [enabled |-> FALSE, elevation |-> 10, side |-> "bottom", softness |-> 10, color |-> "rgba(0, 0, 0, 0.3)", intensity |-> 1]

\* useImageStore: imageOverlays before an overlay is added.  The store of
\* src/lib/store/index.ts (435-661) declares no image-overlay slice, while
\* overlay-gallery.tsx (12), overlay-controls.tsx (11), overlay-renderer.tsx
\* (9) and CanvasToolbar.tsx (860) take imageOverlays, addImageOverlay,
\* updateImageOverlay and removeImageOverlay from it: the slice is modelled
\* after the data model, an ordered list of overlays that starts empty
InitialImageOverlays == <<>>

Init ==
    /\ uploadedImageUrl = NULL
    /\ borderRadius = 0
    /\ perspective3D = IdentityPerspective
    /\ imageOpacity = 100
    /\ selectedAspectRatio = "16_9"
    /\ screenshot = [src |-> NULL, radius |-> 0]
    /\ image = NULL
    /\ pendingLoads = NoLoads
    /\ globalKonvaStage = 0
    /\ cards = <<>>
    /\ isExporting = FALSE
    /\ exportDialogOpen = FALSE
    /\ ops = <<>>
    /\ started = 0
    /\ edits = 0
    /\ canvases = <<>>
    /\ lastCall = NoCall
    /\ pendingNoise = {}
    /\ bodyNodes = {}
    /\ calls = <<>>
    /\ prefsStore = {}
    /\ idbCalls = <<>>
    /\ idbQueue = <<>>
    /\ lastSaved = NoPrefs
    /\ settings = DEFAULT_SETTINGS
    /\ renderedSettings = DEFAULT_SETTINGS
    /\ userSet = NothingSet
    /\ mountId = 0
    /\ objects = <<>>
    /\ pendingImages = {}
    /\ nextObjectId = 0
    /\ history = EmptyHistory
    /\ collageOp = NoCollageOp
    /\ collageStage = FALSE
    /\ savedObjects = NotSaved
    /\ pendingRestores = <<>>
    /\ collageCalls = 0
    /\ stageModules = [m \in StageModuleNames |-> NoRenderer]
    /\ imageOverlays = InitialImageOverlays
    /\ overlayRuns = <<>>
    /\ loadedOverlayImages = {}
    /\ imageShadow = DefaultImageShadow
    /\ editorShadow = DefaultEditorShadow
    /\ shadowOp = "none"

(***************************************************************************)
(* React commit after a store change                                       *)
(***************************************************************************)
\* CanvasRenderer re-renders (or mounts, or unmounts) with the new state
CommitRender(newImage) ==
    /\ image' = newImage
    /\ cards' = CommitCards(cards, image # NULL, newImage # NULL,
                            perspective3D', imageOpacity')
    /\ globalKonvaStage' = StageAfterCommit(cards', newImage # NULL)

\* the effect of ClientCanvas on screenshot.src: clear the image, or start a load
SrcEffectAndRender(newSrc, pending) ==
    /\ pendingLoads' = IF newSrc # screenshot.src /\ newSrc # NULL
                         THEN StartLoad(pending, newSrc) ELSE pending
    /\ CommitRender(IF newSrc # screenshot.src /\ newSrc = NULL THEN NULL ELSE image)

\* useEditorStoreSync runs when one of its dependencies changed
SyncAndCommit(syncRuns) ==
    LET shot == IF syncRuns THEN SyncScreenshot(uploadedImageUrl', borderRadius')
                ELSE screenshot IN
    /\ screenshot' = shot
    /\ SrcEffectAndRender(shot.src, pendingLoads)

EditCount ==
    /\ edits < MaxEdits
    /\ edits' = edits + 1

\* an editor action that leaves the image shadow as it is
Edit ==
    /\ EditCount
    /\ UNCHANGED <<hookVars, bitmapVars, domVars, laterVars>>

(***************************************************************************)
(* useImageStore setters                                                   *)
(***************************************************************************)
ShadowBlurs == {10, 20}
ShadowOffsets == {-8, 0, 4, 8}
ShadowColors == {"rgba(0, 0, 0, 0.3)", "#ff0000"}
\* Partial<ImageShadow>: the fields a call of setImageShadow gives
ShadowPatches == [enabled : BOOLEAN] \cup [blur : ShadowBlurs] \cup [offsetX : ShadowOffsets] \cup [offsetY : ShadowOffsets] \cup [color : ShadowColors] \cup [offsetX : ShadowOffsets, offsetY : ShadowOffsets]

\* { ...currentShadow, ...shadow }
Merge(current, patch) == [f \in DOMAIN current |-> IF f \in DOMAIN patch THEN patch[f] ELSE current[f]]

Abs(n) == IF n < 0 THEN -n ELSE n
Max(a, b) == IF a >= b THEN a ELSE b
\* Math.max(Math.abs(shadow.offsetX), Math.abs(shadow.offsetY))
ElevationOf(shadow) == Max(Abs(shadow.offsetX), Abs(shadow.offsetY))
\* shadow.offsetX > 0 ? 'right' : shadow.offsetY > 0 ? 'bottom' : 'bottom'
SideOf(shadow) == IF shadow.offsetX > 0 THEN "right" ELSE "bottom"

\* the "Sync shadow" part of the effect of useEditorStoreSync
SyncShadow(shadow, editor) == IF editor.enabled # shadow.enabled \/ editor.softness # shadow.blur \/ editor.color # shadow.color THEN Merge(editor, [enabled |-> shadow.enabled, softness |-> shadow.blur, color |-> shadow.color, elevation |-> ElevationOf(shadow), side |-> SideOf(shadow), intensity |-> 1]) ELSE editor

\* the patches the editor gives setImageShadow where the shadow is not what
\* is looked at
SomeShadowPatches == [enabled : BOOLEAN]

\* setImageShadow(patch), then the effect of useEditorStoreSync, which has
\* imageStore.imageShadow among its dependencies: it syncs the screenshot
\* and the shadow
setImageShadow(patches) ==
    /\ EditCount
    /\ \E patch \in patches :
         /\ imageShadow' = Merge(imageShadow, patch)
         /\ editorShadow' = SyncShadow(imageShadow', editorShadow)
         /\ shadowOp' = IF DOMAIN patch \subseteq {"offsetX", "offsetY"} THEN "offsets" ELSE "other"
    /\ UNCHANGED <<uploadedImageUrl, borderRadius, perspective3D, imageOpacity, selectedAspectRatio>>
    /\ SyncAndCommit(TRUE)
    /\ UNCHANGED <<hookVars, bitmapVars, domVars, prefsVars, collageVars, stageVars, overlayVars>>

\* setImage(file): the store's fields the model tracks, imageUrl being the
\* object URL the setter makes
setImage(imageUrl) ==
    /\ uploadedImageUrl' = imageUrl
    /\ perspective3D' = IdentityPerspective
    /\ UNCHANGED <<borderRadius, imageOpacity, selectedAspectRatio>>

\* UploadDropzone.handleFile with a valid file: setScreenshot({ src: imageUrl })
\* and setImage(file), which makes a second object URL.  ClientCanvas starts
\* the load of screenshot.src, the effect of useEditorStoreSync sets
\* screenshot.src to uploadedImageUrl, and ClientCanvas starts that load too.
handleFile ==
    /\ Edit
    /\ \E pair \in ObjectUrlPairs :
        /\ {pair[1], pair[2]} \cap ({uploadedImageUrl, image, screenshot.src} \cup Loading(pendingLoads)) = {}
        /\ setImage(pair[2])
        /\ screenshot' = SyncScreenshot(pair[2], borderRadius)
        /\ pendingLoads' = StartLoad(StartLoad(pendingLoads, pair[1]), pair[2])
        /\ CommitRender(image)

clearImage ==
    /\ Edit
    /\ uploadedImageUrl # NULL
    /\ uploadedImageUrl' = NULL
    /\ UNCHANGED <<borderRadius, perspective3D, imageOpacity, selectedAspectRatio>>
    /\ SyncAndCommit(TRUE)

setBorderRadius ==
    /\ Edit
    /\ \E r \in Radii :
        /\ r # borderRadius
        /\ borderRadius' = r
        /\ UNCHANGED <<uploadedImageUrl, perspective3D, imageOpacity, selectedAspectRatio>>
        /\ SyncAndCommit(TRUE)

setPerspective3D ==
    /\ Edit
    /\ \E f \in PerspectiveFields :
         \E v \in (IF f = "scale" THEN Scales ELSE Angles) :
            /\ v # perspective3D[f]
            /\ perspective3D' = [perspective3D EXCEPT ![f] = v]
    /\ UNCHANGED <<uploadedImageUrl, borderRadius, imageOpacity, selectedAspectRatio>>
    /\ SyncAndCommit(FALSE)

setImageOpacity ==
    /\ Edit
    /\ \E o \in Opacities :
        /\ o # imageOpacity
        /\ imageOpacity' = o
    /\ UNCHANGED <<uploadedImageUrl, borderRadius, perspective3D, selectedAspectRatio>>
    /\ SyncAndCommit(FALSE)

setAspectRatio ==
    /\ Edit
    /\ \E k \in AspectKeys :
        /\ k # selectedAspectRatio
        /\ selectedAspectRatio' = k
    /\ UNCHANGED <<uploadedImageUrl, borderRadius, perspective3D, imageOpacity>>
    /\ SyncAndCommit(TRUE)

\* setImageScale(scale) with a scale other than the current: imageScale is a
\* dependency of the effect of useEditorStoreSync
setImageScale ==
    /\ Edit
    /\ UNCHANGED <<uploadedImageUrl, borderRadius, perspective3D, imageOpacity, selectedAspectRatio>>
    /\ SyncAndCommit(TRUE)

\* setBackgroundConfig(config): the new object is a changed dependency of the
\* effect of useEditorStoreSync
setBackgroundConfig ==
    /\ Edit
    /\ UNCHANGED <<uploadedImageUrl, borderRadius, perspective3D, imageOpacity, selectedAspectRatio>>
    /\ SyncAndCommit(TRUE)

\* setImageBorder(border): the merged object is a changed dependency of the
\* effect of useEditorStoreSync
setImageBorder ==
    /\ Edit
    /\ UNCHANGED <<uploadedImageUrl, borderRadius, perspective3D, imageOpacity, selectedAspectRatio>>
    /\ SyncAndCommit(TRUE)

(***************************************************************************)
(* ClientCanvas: the image load settles                                    *)
(***************************************************************************)
ImgOnload ==
    \E u \in Loading(pendingLoads) :
        /\ pendingLoads' = EndLoad(pendingLoads, u)
        /\ UNCHANGED <<storeVars, hookVars, edits, bitmapVars, domVars, laterVars>>
        /\ CommitRender(u)

ImgOnerror ==
    \E u \in Loading(pendingLoads) :
        /\ screenshot' = [screenshot EXCEPT !.src = NULL]
        /\ UNCHANGED <<uploadedImageUrl, borderRadius, perspective3D, imageOpacity,
                       selectedAspectRatio, hookVars, edits, bitmapVars, domVars, laterVars>>
        /\ SrcEffectAndRender(NULL, EndLoad(pendingLoads, u))

(***************************************************************************)
(* EditorLeftPanel and ExportDialog: the export triggers                   *)
(***************************************************************************)
InFlight == {i \in 1..Len(ops) : ~Settled(ops[i])}

\* the Download button: disabled={!uploadedImageUrl}
OpenExportDialog ==
    /\ uploadedImageUrl # NULL
    /\ ~exportDialogOpen
    /\ exportDialogOpen' = TRUE
    /\ UNCHANGED <<storeVars, canvasVars, isExporting, ops, started, edits, bitmapVars, domVars, laterVars>>

\* the dialog is dismissed by the user
CloseExportDialog ==
    /\ exportDialogOpen
    /\ exportDialogOpen' = FALSE
    /\ UNCHANGED <<storeVars, canvasVars, isExporting, ops, started, edits, bitmapVars, domVars, laterVars>>

\* the "Export as PNG" button of ExportDialog: disabled={isExporting}
ExportButtonDisabled == isExporting

CopyButtonDisabled_NoBusy == uploadedImageUrl = NULL

\* the Copy button: disabled={!uploadedImageUrl || isExporting}
CopyButtonDisabled == uploadedImageUrl = NULL \/ isExporting

HookFinally_OnlyOnSuccess(op, busy) == IF op.pc = "resolved" THEN FALSE ELSE busy

\* finally { setIsExporting(false) }, reached when the call has ended
HookFinally(op, busy) == IF Settled(op) THEN FALSE ELSE busy

\* a call of exportImage or copyImage: setIsExporting(true), the prologue, and
\* the finally block when the prologue already threw
StartOp(kind) ==
    LET op == HookPrologue(kind, globalKonvaStage, selectedAspectRatio,
                           ExportElementArgs(perspective3D, screenshot), started + 1) IN
    /\ started < MaxOps
    /\ started' = started + 1
    /\ ops' = Append(SelectSeq(ops, LAMBDA o : ~Settled(o)), op)
    /\ isExporting' = HookFinally(op, TRUE)
    /\ UNCHANGED <<storeVars, canvasVars, exportDialogOpen, edits, bitmapVars, domVars, laterVars>>

ClickExport ==
    /\ exportDialogOpen
    /\ ~ExportButtonDisabled
    /\ StartOp("export")

ClickCopy ==
    /\ ~CopyButtonDisabled
    /\ StartOp("copy")

(***************************************************************************)
(* The continuations of a call in flight                                   *)
(***************************************************************************)
\* document.body after a step of a call: the download anchor the step
\* appended, the capture container it appended or removed
BodyAfterStep(body, before, after) ==
    LET linked == IF after.link # before.link THEN AppendChild(body, after.link)
                  ELSE body
    IN IF after.container = before.container THEN linked
       ELSE IF after.container # 0 THEN AppendChild(linked, after.container)
       ELSE RemoveChild(linked, before.container)

\* the call moves on; when it settles the finally block clears isExporting,
\* and ExportDialog.handleExport closes the dialog after a resolved export
StepOp(i, op) ==
    /\ ops' = [ops EXCEPT ![i] = op]
    /\ isExporting' = HookFinally(op, isExporting)
    /\ exportDialogOpen' = IF op.pc = "resolved" /\ op.kind = "export"
                             THEN FALSE ELSE exportDialogOpen
    /\ bodyNodes' = BodyAfterStep(bodyNodes, ops[i], op)
    /\ UNCHANGED <<storeVars, canvasVars, started, edits, bitmapVars, calls, laterVars>>

ExportDomReady ==
    \E i \in InFlight :
        /\ ops[i].pc = "wait_dom"
        /\ StepOp(i, RasterStart(ops[i], GetElementById(cards), cards))

ExportRasterLoaded ==
    \E i \in InFlight : \E outcome \in {"ok", "onerror", "noctx"} :
        /\ ops[i].pc = "raster_load"
        /\ StepOp(i, RasterLoaded(ops[i], outcome, cards))

ExportCaptureTimer ==
    \E i \in InFlight :
        /\ ops[i].pc = "capture_wait"
        /\ StepOp(i, CaptureTimer(ops[i]))

ExportCaptureDone ==
    \E i \in InFlight : \E outcome \in {"canvas", "empty", "throws"} :
        /\ ops[i].pc = "capture_dom"
        /\ StepOp(i, CaptureDone(Faulted(ops[i], "capture", outcome = "throws"),
                                 outcome))

ExportEncodeDone ==
    \E i \in InFlight : \E blob \in Blobs : \E url \in DataURLs :
      \E clipboardSupported \in BOOLEAN :
        /\ ops[i].pc = "blob_wait"
        /\ ops[i].kind = "copy" \/ clipboardSupported
        /\ StepOp(i, IF ops[i].kind = "export"
                       THEN ExportAfterEncode(EncodeDone(ops[i], blob, url))
                       ELSE LET e == EncodeDone(ops[i], blob, url) IN
                            CopyAfterEncode(Faulted(e, "no_clipboard", ~Settled(e) /\ ~clipboardSupported),
                                            clipboardSupported))

ExportSaveDone ==
    \E i \in InFlight : \E saveOk \in BOOLEAN :
      \E umami \in {"absent", "ok", "throws"} :
        /\ ops[i].pc = "save_wait"
        /\ StepOp(i, SaveDone(Faulted(Faulted(ops[i], "persist", ~saveOk),
                                      "analytics", umami = "throws"),
                              saveOk, umami))

CopyClipboardDone ==
    \E i \in InFlight : \E writeOk \in BOOLEAN :
      \E umami \in {"absent", "ok", "throws"} :
        /\ ops[i].pc = "clip_wait"
        /\ StepOp(i, ClipboardDone(Faulted(Faulted(ops[i], "clipboard", ~writeOk),
                                           "analytics", writeOk /\ umami = "throws"),
                                   writeOk, umami))

\* setTimeout(() => { document.body.removeChild(link) }, 100) of exportImage
ExportLinkTimer ==
    \E link \in bodyNodes :
        /\ link < 0
        /\ bodyNodes' = RemoveChild(bodyNodes, link)
        /\ UNCHANGED <<storeVars, canvasVars, hookVars, edits, bitmapVars, calls, laterVars>>

Next ==
    \/ handleFile
    \/ clearImage
    \/ setBorderRadius
    \/ setPerspective3D
    \/ setImageOpacity
    \/ setAspectRatio
    \/ setImageScale
    \/ setBackgroundConfig
    \/ setImageBorder
    \/ setImageShadow(SomeShadowPatches)
    \/ ImgOnload
    \/ ImgOnerror
    \/ OpenExportDialog
    \/ CloseExportDialog
    \/ ClickExport
    \/ ClickCopy
    \/ ExportDomReady
    \/ ExportRasterLoaded
    \/ ExportCaptureTimer
    \/ ExportCaptureDone
    \/ ExportEncodeDone
    \/ ExportSaveDone
    \/ CopyClipboardDone
    \/ ExportLinkTimer

Spec == Init /\ [][Next]_vars

\* the timers, image loads, captures, encoders and storage requests a call
\* waits for
Continue ==
    \/ ExportDomReady
    \/ ExportRasterLoaded
    \/ ExportCaptureTimer
    \/ ExportCaptureDone
    \/ ExportEncodeDone
    \/ ExportSaveDone
    \/ CopyClipboardDone
    \/ ExportLinkTimer

\* the program with fewer editor actions per behaviour
NextLive == Next /\ edits' <= MaxLiveEdits

\* every awaited timer and promise settles at some time
SpecLive == Init /\ [][NextLive]_vars /\ WF_vars(Continue)

TypeOK ==
    /\ uploadedImageUrl \in Urls \cup {NULL}
    /\ borderRadius \in Radii
    /\ imageOpacity \in Opacities
    /\ image \in Urls \cup {NULL}
    /\ pendingLoads \in [Urls -> 0..MaxEdits]
    /\ globalKonvaStage \in 0..Len(cards)
    /\ isExporting \in BOOLEAN
    /\ Len(ops) <= MaxOps
    /\ started \in 0..MaxOps

(***************************************************************************)
(* The canvas helpers on a heap of canvas objects.  canvases[c] is the     *)
(* pixel content of canvas c, as the layers drawn on it, bottom first.     *)
(* Each helper yields the new heap and the canvas it returns.              *)
(***************************************************************************)
\* document.createElement('canvas'): a new, transparent canvas
NewCanvasId(h) == Len(h) + 1

\* applyBlurToCanvas(canvas, blurAmount); ctxOk: getContext('2d') is not null
applyBlurToCanvas(h, canvas, blurAmount, ctxOk) ==
    IF blurAmount <= 0 THEN [heap |-> h, out |-> canvas]
    ELSE IF ~ctxOk THEN [heap |-> Append(h, <<>>), out |-> canvas]
    ELSE [heap |-> Append(h, DrawImage(h[canvas], "blur")),
          out |-> NewCanvasId(h)]

applyOpacityToCanvas_AlwaysCopy(h, canvas, opacity, ctxOk) ==
    [heap |-> Append(h, DrawImage(h[canvas], "alpha")), out |-> NewCanvasId(h)]

\* applyOpacityToCanvas(canvas, opacity), opacity in percent
applyOpacityToCanvas(h, canvas, opacity, ctxOk) ==
    IF opacity >= 100 THEN [heap |-> h, out |-> canvas]
    ELSE IF opacity <= 0 THEN [heap |-> Append(h, <<>>), out |-> NewCanvasId(h)]
    ELSE IF ~ctxOk THEN [heap |-> Append(h, <<>>), out |-> canvas]
    ELSE [heap |-> Append(h, DrawImage(h[canvas], "alpha")),
          out |-> NewCanvasId(h)]

\* applyNoiseToCanvas(canvas, noiseIntensity, ...) up to
\* `await getNoiseTextureFromPreview()`: the input is drawn on a new canvas
applyNoiseToCanvas(h, canvas, noiseIntensity, ctxOk) ==
    IF noiseIntensity <= 0 THEN [heap |-> h, out |-> canvas, awaiting |-> FALSE]
    ELSE IF ~ctxOk THEN [heap |-> Append(h, <<>>), out |-> canvas, awaiting |-> FALSE]
    ELSE [heap |-> Append(h, h[canvas]), out |-> NewCanvasId(h), awaiting |-> TRUE]

\* what the image of the preview's noise overlay does: onload with or without
\* a 2D context for the texture canvas, or onerror
TextureOutcomes == {"onload", "noctx", "onerror"}

\* getNoiseTextureFromPreview once the image has settled: img.onload creates
\* the texture canvas and resolves with it (with null when it has no 2D
\* context), img.onerror resolves with null
getNoiseTextureFromPreview(h, outcome) ==
    CASE outcome = "onload" -> Append(h, <<"texture">>)
      [] outcome = "noctx" -> Append(h, <<>>)
      [] OTHER -> h

\* applyNoiseToCanvas after the await: the texture (the preview's, or the one
\* generateNoiseTexture makes) is tiled over the copy in overlay mode when
\* ctx.createPattern gives a pattern
applyNoiseFill(h, finalCanvas, patternOk) ==
    IF patternOk THEN [h EXCEPT ![finalCanvas] = DrawImage(@, "noise")] ELSE h

\* exportElement step 2: the captured canvas is drawn on konvaCanvas through
\* konvaCanvas.getContext('2d'), when its width and height are positive
paste3DOverlay(h, konvaCanvas, overlaySize) ==
    IF overlaySize > 0
      THEN [heap |-> [h EXCEPT ![konvaCanvas] = DrawImage(@, "3d")],
            out |-> konvaCanvas]
      ELSE [heap |-> h, out |-> konvaCanvas]

\* parameters of a post-processing run: ctx[k] tells whether the k-th
\* helper's getContext('2d') is not null, preview whether the preview's noise
\* overlay is in the document, patternOk whether createPattern gives a pattern
RunParams(blur, noise, opacity, scale, ctx, preview, patternOk) == [blur |-> blur, noise |-> noise, opacity |-> opacity, scale |-> scale, ctx |-> ctx, preview |-> preview, patternOk |-> patternOk]

\* the document has the preview's noise overlay or not; looked at only by a
\* call that reaches getNoiseTextureFromPreview
NoisePreviews(noise, ctxOk) == IF noise > 0 /\ ctxOk THEN BOOLEAN ELSE {FALSE}
\* createPattern gives a pattern or null; called in the same task only
\* when the texture is generated
NoisePatterns(noise, ctxOk, preview) == IF noise > 0 /\ ctxOk /\ ~preview THEN BOOLEAN ELSE {TRUE}

BackgroundStages_NoiseFirst == <<"noise", "blur", "opacity">>

\* exportBackground after html2canvas: Step 1 blur, Step 2 noise, Step 3 opacity
BackgroundStages == <<"blur", "noise", "opacity">>

\* one synchronous stage of exportBackground's post-processing
RunStage(stage, h, canvas, P) ==
    IF stage = "blur"
      THEN IF P.blur > 0 THEN applyBlurToCanvas(h, canvas, P.blur * P.scale, P.ctx[1])
           ELSE [heap |-> h, out |-> canvas]
      ELSE applyOpacityToCanvas(h, canvas, P.opacity, P.ctx[3])

\* the stages from the k-th on, as far as they run without leaving the task:
\* pos is 0 when the last stage has returned, otherwise the stage whose
\* applyNoiseToCanvas waits for the image of the preview's noise overlay, and
\* final is the canvas that call will return
RECURSIVE RunStagesFrom(_, _, _, _, _)
RunStagesFrom(stages, h, canvas, k, P) ==
    IF k > Len(stages) THEN [heap |-> h, out |-> canvas, pos |-> 0, final |-> 0]
    ELSE IF stages[k] = "noise"
      THEN LET n == applyNoiseToCanvas(h, canvas, P.noise, P.ctx[2]) IN
           IF n.awaiting /\ P.preview
             THEN [heap |-> n.heap, out |-> canvas, pos |-> k, final |-> n.out]
           ELSE IF n.awaiting
             THEN RunStagesFrom(stages, applyNoiseFill(n.heap, n.out, P.patternOk), n.out, k + 1, P)
           ELSE RunStagesFrom(stages, n.heap, n.out, k + 1, P)
      ELSE LET r == RunStage(stages[k], h, canvas, P) IN
           RunStagesFrom(stages, r.heap, r.out, k + 1, P)

\* exportBackground from the canvas html2canvas gave to its return, or to the
\* await inside applyNoiseToCanvas
exportBackgroundTail(h, canvas, P) == RunStagesFrom(BackgroundStages, h, canvas, 1, P)

\* the canvases a step created
Created(h, r) == (Len(h) + 1)..Len(r.heap)

\* canvases held only by a call in flight or by getNoiseTextureFromPreview:
\* no other code has a reference to them
LocalCanvases == {p.final : p \in pendingNoise} \cup {c \in 1..Len(canvases) : canvases[c] = <<"texture">>}
Reachable == (1..Len(canvases)) \ LocalCanvases

\* the canvases of a heap other than noise textures
HeapSize(h) == Cardinality({c \in 1..Len(h) : h[c] # <<"texture">>})

HeapBound(name) == IF name \in {"exportBackground", "stageBackground"} THEN MaxBgCanvases ELSE MaxCanvases
\* the heap stays within the bounds of the specification the call belongs to
WithinBounds(name, h) == HeapSize(h) <= HeapBound(name) /\ (name \in {"exportBackground", "stageBackground"} \/ \A k \in 1..Len(h) : Len(h[k]) <= MaxLayers)

\* one helper call, recorded with its input as it was before the call
Call(name, c, neutral, ctxOk, r) ==
    /\ HeapSize(r.heap) <= MaxCanvases
    /\ \A k \in 1..Len(r.heap) : Len(r.heap[k]) <= MaxLayers
    /\ canvases' = r.heap
    /\ lastCall' = [name |-> name, input |-> c, before |-> canvases[c],
                    output |-> r.out, neutral |-> neutral, ctxOk |-> ctxOk,
                    allocated |-> Len(r.heap) - Len(canvases),
                    created |-> Created(canvases, r)]
    /\ UNCHANGED <<storeVars, canvasVars, hookVars, edits, pendingNoise, domVars, laterVars>>

\* a post-processing run on canvas c of heap h (stages from the first) has
\* returned, and is recorded, or waits for the noise texture
StartRun(name, h, c, stages, neutral, P, r) ==
    /\ WithinBounds(name, r.heap)
    /\ canvases' = r.heap
    /\ IF r.pos = 0
         THEN /\ lastCall' = [name |-> name, input |-> c, before |-> h[c],
                              output |-> r.out, neutral |-> neutral,
                              ctxOk |-> (\A k \in 1..3 : P.ctx[k]) /\ P.patternOk,
                              allocated |-> Len(r.heap) - Len(h),
                              created |-> Created(h, r),
                              blur |-> P.blur, noise |-> P.noise]
              /\ UNCHANGED pendingNoise
         ELSE /\ lastCall' = NoCall
              /\ pendingNoise' = pendingNoise \cup {[name |-> name, input |-> c, stages |-> stages, pos |-> r.pos, final |-> r.final, created |-> Created(h, r), P |-> [P EXCEPT !.preview = FALSE, !.patternOk = TRUE]]}
    /\ UNCHANGED <<storeVars, canvasVars, hookVars, edits, domVars, laterVars>>

\* the image of the preview's noise overlay settles: the waiting
\* applyNoiseToCanvas draws the noise and returns, and its caller goes on
NoiseTextureSettles ==
    \E p \in pendingNoise : \E outcome \in TextureOutcomes : \E patternOk \in BOOLEAN :
        LET t == getNoiseTextureFromPreview(canvases, outcome)
            P == [p.P EXCEPT !.patternOk = patternOk]
            r == RunStagesFrom(p.stages, applyNoiseFill(t, p.final, patternOk), p.final, p.pos + 1, P)
        IN /\ WithinBounds(p.name, r.heap)
           /\ r.pos = 0
           /\ canvases' = r.heap
           /\ pendingNoise' = pendingNoise \ {p}
           /\ lastCall' = [name |-> p.name, input |-> p.input, before |-> canvases[p.input],
                           output |-> r.out, neutral |-> FALSE,
                           ctxOk |-> (\A k \in 1..3 : P.ctx[k]) /\ patternOk,
                           allocated |-> Cardinality(p.created) + Len(r.heap) - Len(canvases),
                           created |-> p.created \cup Created(canvases, r),
                           blur |-> P.blur, noise |-> P.noise]
           /\ UNCHANGED <<storeVars, canvasVars, hookVars, edits, domVars, laterVars>>

\* a rasterized canvas arrives (html2canvas, or exportKonvaStage)
CreateCanvas ==
    /\ HeapSize(canvases) < MaxCanvases
    /\ canvases' = Append(canvases, <<"raster">>)
    /\ lastCall' = NoCall
    /\ UNCHANGED <<storeVars, canvasVars, hookVars, edits, pendingNoise, domVars, laterVars>>

CallBlur ==
    \E c \in Reachable : \E blurAmount \in {0, 8} : \E ctxOk \in BOOLEAN :
        Call("blur", c, blurAmount <= 0, ctxOk,
             applyBlurToCanvas(canvases, c, blurAmount, ctxOk))

CallOpacity ==
    \E c \in Reachable : \E opacity \in {0, 50, 100} : \E ctxOk \in BOOLEAN :
        Call("opacity", c, opacity >= 100, ctxOk,
             applyOpacityToCanvas(canvases, c, opacity, ctxOk))

\* a call of applyNoiseToCanvas, to its return or to its await
CallNoise ==
    \E c \in Reachable : \E noise \in {0, 30} : \E ctxOk \in BOOLEAN :
      \E preview \in NoisePreviews(noise, ctxOk) : \E patternOk \in NoisePatterns(noise, ctxOk, preview) :
        LET P == RunParams(0, noise, 100, 1, [k \in 1..3 |-> ctxOk], preview, patternOk)
        IN StartRun("noise", canvases, c, <<"noise">>, noise <= 0, P,
                    RunStagesFrom(<<"noise">>, canvases, c, 1, P))

CallPaste3D ==
    \E c \in Reachable : \E overlaySize \in {0, 64} :
        Call("paste3D", c, overlaySize <= 0, TRUE,
             paste3DOverlay(canvases, c, overlaySize))

\* exportBackground's post-processing on a rasterized canvas
BackgroundTail(scales, ctxs) ==
    \E c \in Reachable : \E blur \in {0, 8} : \E noise \in {0, 30} :
      \E opacity \in {50, 100} : \E scale \in scales : \E ctx \in ctxs :
        \E preview \in NoisePreviews(noise, ctx[2]) :
          LET P == RunParams(blur, noise, opacity, scale, ctx, preview, TRUE)
          IN StartRun("background", canvases, c, BackgroundStages,
                      blur <= 0 /\ noise <= 0 /\ opacity >= 100, P,
                      exportBackgroundTail(canvases, c, P))

CallBackgroundTail ==
    BackgroundTail({2}, {[k \in 1..3 |-> TRUE], [k \in 1..3 |-> FALSE]})

NextBitmap ==
    \/ CreateCanvas
    \/ CallBackgroundTail
    \/ CallBlur
    \/ CallOpacity
    \/ CallNoise
    \/ CallPaste3D
    \/ NoiseTextureSettles

SpecBitmap == Init /\ [][NextBitmap]_vars

(***************************************************************************)
(* The background of an export: exportBackground (html2canvas of a clone   *)
(* of #canvas-background, then the canvas helpers) and the background      *)
(* layer of the Konva stage that exportKonvaStage rasterizes.              *)
(***************************************************************************)
\* html2canvas of the export container: it holds the clone of
\* #canvas-background only, and elements with the noise overlay ids are
\* ignored; onclone sets filter: blur() on the clone when backgroundBlur > 0,
\* which the rasterizer may or may not render
html2canvasBackground(backgroundBlur, filterRendered) ==
    IF backgroundBlur > 0 /\ filterRendered
      THEN <<"background", "blur">> ELSE <<"background">>

\* the background layer of CanvasRenderer as Konva draws it: the background
\* node with its Blur filter, then the noise Rect in overlay mode
KonvaBackgroundLayer(backgroundBlur, backgroundNoise, noiseTexture) ==
    LET bg == IF backgroundBlur > 0
                 THEN <<"background", "blur">> ELSE <<"background">>
    IN IF noiseTexture /\ backgroundNoise > 0
         THEN DrawImage(bg, "noise") ELSE bg

\* one exportBackground call from the canvas html2canvas gave
ExportBackground ==
    /\ HeapSize(canvases) < MaxBgCanvases
    /\ \E blur \in {0, 8} : \E noise \in {0, 30} : \E opacity \in {50, 100} :
      \E scale \in {1, 2} : \E ctx \in [1..3 -> BOOLEAN] :
        \E filterRendered \in BOOLEAN : \E preview \in NoisePreviews(noise, ctx[2]) :
         \E patternOk \in NoisePatterns(noise, ctx[2], preview) :
          LET captured == html2canvasBackground(blur, filterRendered)
              h == Append(canvases, captured)
              P == RunParams(blur, noise, opacity, scale, ctx, preview, patternOk)
          IN StartRun("exportBackground", h, Len(h), BackgroundStages,
                       blur <= 0 /\ noise <= 0, P, exportBackgroundTail(h, Len(h), P))

\* exportKonvaStage draws the stage, its background layer first
ExportStageBackground ==
    \E blur \in {0, 8} : \E noise \in {0, 30} : \E noiseTexture \in BOOLEAN :
        LET h == Append(canvases, KonvaBackgroundLayer(blur, noise, noiseTexture))
        IN /\ HeapSize(h) <= MaxBgCanvases
           /\ canvases' = h
           /\ lastCall' = [name |-> "stageBackground", input |-> Len(h), before |-> <<>>,
                           output |-> Len(h), neutral |-> blur <= 0 /\ noise <= 0,
                           ctxOk |-> noiseTexture, allocated |-> 1,
                           blur |-> blur, noise |-> noise]
           /\ UNCHANGED <<storeVars, canvasVars, hookVars, edits, pendingNoise, domVars, laterVars>>

NextBackground ==
    \/ ExportBackground
    \/ ExportStageBackground
    \/ NoiseTextureSettles

SpecBackground == Init /\ [][NextBackground]_vars

(***************************************************************************)
(* IEEE-754 double arithmetic of exportKonvaStage.  The pixel ratio is     *)
(* fl(scale * fl(a / b)) for integers a (target size) and b (stage size);  *)
(* the stage canvas gets trunc(fl(x * ratio)) pixels.  The 53-bit          *)
(* mantissas are not held: the rounding errors are computed exactly from   *)
(* remainders modulo small multiples of b.                                 *)
(***************************************************************************)
RECURSIVE Pow2(_)
Pow2(n) == IF n <= 0 THEN 1 ELSE 2 * Pow2(n - 1)

RECURSIVE Log2Up(_, _, _)
Log2Up(a, b, k) == IF b * Pow2(k + 1) <= a THEN Log2Up(a, b, k + 1) ELSE k

RECURSIVE Log2Down(_, _, _)
Log2Down(a, b, m) == IF a * Pow2(m) < b THEN Log2Down(a, b, m + 1) ELSE 0 - m

\* the exponent of a / b: the largest k with 2^k <= a / b
Log2FloorRatio(a, b) == IF a >= b THEN Log2Up(a, b, 0) ELSE Log2Down(a, b, 1)

\* (x * 2^n) mod m
RECURSIVE ShiftMod(_, _, _)
ShiftMod(x, n, m) == IF n = 0 THEN x % m ELSE ShiftMod((2 * x) % m, n - 1, m)

\* With k the exponent of a / b and ratio = fl(scale * fl(a / b)):
\* b * ratio = scale * a + F * 2^(k - 52) exactly.  Yields F and k.
\* M = fl(a / b) * 2^(52 - k) is the 53-bit mantissa of the quotient, rounded
\* to nearest even (e1 = M * b - a * 2^(52 - k)); scale * M has j bits more
\* than 53, which are rounded off the same way (e2).
RatioError(a, b, scale) ==
    LET k == Log2FloorRatio(a, b)
        Nm == ShiftMod(a, 52 - k, 16 * b)
        rem == Nm % b
        q16 == (Nm - rem) \div b
        up == 2 * rem > b \/ (2 * rem = b /\ q16 % 2 = 1)
        e1 == IF up THEN b - rem ELSE 0 - rem
        m1 == IF up THEN (q16 + 1) % 16 ELSE q16
        j0 == Log2FloorRatio(scale, 1)
        \* scale * M < 2^(53 + j0): the product has j0 bits too many, else j0 + 1
        lhs == IF k + 1 + j0 < 0 THEN scale * a * Pow2(0 - (k + 1 + j0)) ELSE scale * a
        rhs == b * Pow2(k + 1 + j0)
        small == lhs < rhs \/ (lhs = rhs /\ ~up)
        g == IF small THEN Pow2(j0) ELSE Pow2(j0 + 1)
        t == (scale * m1) % (2 * g)
        low == t % g
        e2 == IF 2 * low < g THEN 0 - low
              ELSE IF 2 * low > g THEN g - low
              ELSE IF (t - low) % (2 * g) = 0 THEN 0 - low ELSE g - low
    IN [F |-> scale * e1 + e2 * b, k |-> k]

\* x * scale * a / b is the integer V: does fl(x * ratio) fall below V
ProductBelow(a, b, scale, x, V) ==
    LET r == RatioError(a, b, scale)
        jV == Log2FloorRatio(V, 1)
        lhs == (0 - 2 * x * r.F) * (IF V = Pow2(jV) THEN 2 ELSE 1)
        e == jV - r.k
    IN IF Pow2(e) > (2 * scale + 16) * x THEN FALSE ELSE lhs > b * Pow2(e)

\* canvas.width = x * pixelRatio: the double product, truncated
TruncatedProduct(a, b, scale, x) ==
    LET num == x * scale * a IN
    IF num % b = 0
      THEN IF ProductBelow(a, b, scale, x, num \div b)
             THEN (num \div b) - 1 ELSE num \div b
      ELSE num \div b

(***************************************************************************)
(* Sizes: exportKonvaStage, the final canvas of exportElement and the      *)
(* geometry of the 3D paste                                                *)
(***************************************************************************)
StageSizes == {[width |-> 800, height |-> 450], [width |-> 824, height |-> 464],
               [width |-> 960, height |-> 540], [width |-> 900, height |-> 506],
               [width |-> 1000, height |-> 1000], [width |-> 1920, height |-> 1080]}
Presets == {[width |-> 1920, height |-> 1080], [width |-> 1080, height |-> 1080],
            [width |-> 1080, height |-> 1920]}
\* the scales of the export settings, and the scale 5 of copyImage
ExportScales == {1, 2, 3, 5}

exportKonvaStage_NoResize(originalWidth, originalHeight, targetWidth, targetHeight, scale) ==
    LET byWidth == targetWidth * originalHeight >= targetHeight * originalWidth
        a == IF byWidth THEN targetWidth ELSE targetHeight
        b == IF byWidth THEN originalWidth ELSE originalHeight
        tempWidth == TruncatedProduct(a, b, scale, originalWidth)
        tempHeight == TruncatedProduct(a, b, scale, originalHeight)
    IN [tempWidth |-> tempWidth, tempHeight |-> tempHeight,
        width |-> tempWidth, height |-> tempHeight]

\* exportKonvaStage: the stage is drawn at exportPixelRatio = scale *
\* Math.max(targetWidth / originalWidth, targetHeight / originalHeight) into
\* tempCanvas, which is drawn, resized, on a canvas of targetWidth * scale by
\* targetHeight * scale
exportKonvaStage(originalWidth, originalHeight, targetWidth, targetHeight, scale) ==
    LET byWidth == targetWidth * originalHeight >= targetHeight * originalWidth
        a == IF byWidth THEN targetWidth ELSE targetHeight
        b == IF byWidth THEN originalWidth ELSE originalHeight
    IN [tempWidth |-> TruncatedProduct(a, b, scale, originalWidth),
        tempHeight |-> TruncatedProduct(a, b, scale, originalHeight),
        width |-> targetWidth * scale, height |-> targetHeight * scale]

\* exportElement steps 2 and 3: the paste draws on konvaCanvas, whose size it
\* leaves as it is, and finalCanvas is konvaCanvas
FinalCanvasSize(konvaCanvas, capture) ==
    [width |-> konvaCanvas.width, height |-> konvaCanvas.height]

\* one exportElement call, by the sizes of its canvases
RasterizeForExport ==
    \E stage \in StageSizes : \E preset \in Presets : \E scale \in ExportScales :
      \E capture \in {"none", "pasted", "failed"} :
        LET k == exportKonvaStage(stage.width, stage.height,
                                  preset.width, preset.height, scale)
        IN /\ lastCall' = [name |-> "exportKonvaStage", stage |-> stage,
                           preset |-> preset, scale |-> scale, capture |-> capture,
                           temp |-> [width |-> k.tempWidth, height |-> k.tempHeight],
                           final |-> FinalCanvasSize(k, capture)]
           /\ UNCHANGED <<storeVars, canvasVars, hookVars, edits, canvases, pendingNoise, domVars, laterVars>>

\* a quotient n / d of integers, kept exact
Ratio(n, d) == [n |-> n, d |-> d]

\* capture3DTransformWithModernScreenshot: domToCanvas is asked for a canvas of
\* rect.width * scale by rect.height * scale
CapturedOverlaySize(rect, scale) ==
    [width |-> rect.width * scale, height |-> rect.height * scale]

\* exportElement: where and how large the captured overlay is drawn
PasteRect(overlayRect, innerRect, exportWidth, exportHeight, scale) ==
    LET relativeX == overlayRect.left - innerRect.left
        relativeY == overlayRect.top - innerRect.top
        transformedCanvas == CapturedOverlaySize(overlayRect, scale)
    IN [scaledX |-> Ratio(relativeX * exportWidth * scale, innerRect.width),
        scaledY |-> Ratio(relativeY * exportHeight * scale, innerRect.height),
        scaledWidth |-> transformedCanvas.width,
        scaledHeight |-> transformedCanvas.height]

OverlayRects == {[left |-> l, top |-> t, width |-> w, height |-> h] :
                   l \in {0, 100}, t \in {0, 50}, w \in {400, 800}, h \in {225, 450}}
InnerRects == {[left |-> 0, top |-> 0, width |-> 800, height |-> 450],
               [left |-> 0, top |-> 0, width |-> 1920, height |-> 1080]}

\* the paste of one export, by its geometry
PasteOverlay ==
    \E overlayRect \in OverlayRects : \E innerRect \in InnerRects :
      \E preset \in Presets : \E scale \in ExportScales :
        /\ lastCall' = [name |-> "paste", overlayRect |-> overlayRect,
                        innerRect |-> innerRect, preset |-> preset, scale |-> scale,
                        rect |-> PasteRect(overlayRect, innerRect, preset.width,
                                           preset.height, scale)]
        /\ UNCHANGED <<storeVars, canvasVars, hookVars, edits, canvases, pendingNoise, domVars, laterVars>>

NextRaster ==
    \/ RasterizeForExport
    \/ PasteOverlay

SpecRaster == Init /\ [][NextRaster]_vars

(***************************************************************************)
(* The colour normalizer.  A CSS value is a sequence of pieces:            *)
(*   "oklch3"  oklch(0.7 0.1 200)    an oklch token with three components  *)
(*   "oklch2"  oklch(0.7 0.1)        an oklch token with two components    *)
(*   "oklchNaN" oklch(a b c)         three components that are not numbers *)
(*   "word"    oklch                 the bare word, as in `in oklch`       *)
(*   "rgb"     rgb(12, 34, 56)                                             *)
(*   "text"    any other text, e.g. `linear-gradient(to right, `           *)
(* and, in results only,                                                   *)
(*   "inherited"  the colour the probe element inherits from body          *)
(***************************************************************************)
PieceKinds == {"oklch3", "oklch2", "oklchNaN", "word", "rgb", "text"}

\* the sequences over S of length at most n
RECURSIVE SeqsUpTo(_, _)
SeqsUpTo(S, n) ==
    IF n = 0 THEN {<<>>}
    ELSE LET shorter == SeqsUpTo(S, n - 1)
         IN shorter \cup {Append(q, x) : q \in shorter, x \in S}

CssStrings == SeqsUpTo(PieceKinds, MaxPieces)
Browsers == {"toRgb", "keepsOklch", "unsupported", "empty"}

\* str.includes('oklch')
IncludesOklch(str) ==
    \E i \in 1..Len(str) : str[i] \in {"oklch3", "oklch2", "oklchNaN", "word"}

\* a piece that /oklch\(([^)]+)\)/ matches
IsOklchToken(piece) == piece \in {"oklch3", "oklch2", "oklchNaN"}

\* str.match(/oklch\(([^)]+)\)/): the index of the first match, 0 if none
OklchMatch(str) ==
    IF \E i \in 1..Len(str) : IsOklchToken(str[i])
      THEN CHOOSE i \in 1..Len(str) :
             IsOklchToken(str[i]) /\ \A j \in 1..(i - 1) : ~IsOklchToken(str[j])
      ELSE 0

\* oklchMatch[1].split(/\s+/).length
ValuesLength(piece) == IF piece = "oklch2" THEN 2 ELSE 3

\* window.getComputedStyle(tempEl).color after tempEl.style.color = value: a
\* value the browser does not accept as a colour is dropped and the colour
\* inherited from body is computed; an accepted oklch colour is serialized
\* as rgb or as oklch, depending on the browser; "" when nothing is computed
ComputedColor(value, browser) ==
    CASE browser = "empty" -> <<>>
      [] value = <<"rgb">> -> <<"rgb">>
      [] value = <<"oklch3">> /\ browser = "toRgb" -> <<"rgb">>
      [] value = <<"oklch3">> /\ browser = "keepsOklch" -> <<"oklch3">>
      [] OTHER -> <<"inherited">>

\* convertOklchToRGB(oklchColor)
convertOklchToRGB(oklchColor, browser) ==
    IF ~IncludesOklch(oklchColor) THEN oklchColor
    ELSE IF OklchMatch(oklchColor) = 0 THEN oklchColor
    ELSE IF ValuesLength(oklchColor[OklchMatch(oklchColor)]) < 3 THEN oklchColor
    ELSE LET computed == ComputedColor(oklchColor, browser)
         IN IF computed # <<>> THEN computed ELSE oklchColor

\* cssString.replace(/oklch\([^)]+\)/g, match => convertOklchToRGB(match))
RECURSIVE ReplaceOklch(_, _)
ReplaceOklch(str, browser) ==
    IF str = <<>> THEN <<>>
    ELSE (IF IsOklchToken(Head(str))
            THEN convertOklchToRGB(<<Head(str)>>, browser)
            ELSE <<Head(str)>>) \o ReplaceOklch(Tail(str), browser)

\* convertCSSStringToRGB(cssString)
convertCSSStringToRGB(cssString, browser) ==
    IF IncludesOklch(cssString) THEN ReplaceOklch(cssString, browser)
    ELSE cssString

CallConvertOklchToRGB ==
    \E str \in CssStrings : \E browser \in Browsers :
        /\ lastCall' = [name |-> "convertOklchToRGB", input |-> str,
                        browser |-> browser,
                        output |-> convertOklchToRGB(str, browser)]
        /\ UNCHANGED <<storeVars, canvasVars, hookVars, edits, canvases, pendingNoise, domVars, laterVars>>

CallConvertCSSStringToRGB ==
    \E str \in CssStrings : \E browser \in Browsers :
        /\ lastCall' = [name |-> "convertCSSStringToRGB", input |-> str,
                        browser |-> browser,
                        output |-> convertCSSStringToRGB(str, browser)]
        /\ UNCHANGED <<storeVars, canvasVars, hookVars, edits, canvases, pendingNoise, domVars, laterVars>>

NextColor ==
    \/ CallConvertOklchToRGB
    \/ CallConvertCSSStringToRGB

SpecColor == Init /\ [][NextColor]_vars

(***************************************************************************)
(* Temporary DOM nodes of the export code, and the loading of overlay      *)
(* images.  A call is logged in `calls`; the node it appends to            *)
(* document.body carries the number of the call, 0 when it creates none.   *)
(***************************************************************************)
\* an image overlay: hidden or visible, and whether its image loads
Overlay(isVisible, loads) == [isVisible |-> isVisible, loads |-> loads]
OverlayLists ==
    { <<>>,
      <<Overlay(TRUE, TRUE)>>,
      <<Overlay(TRUE, FALSE)>>,
      <<Overlay(TRUE, TRUE), Overlay(TRUE, FALSE)>>,
      <<Overlay(TRUE, FALSE), Overlay(TRUE, TRUE)>>,
      <<Overlay(FALSE, FALSE), Overlay(TRUE, TRUE)>> }

\* pos is the index of the overlay whose image the call awaits, 0 when it awaits none
NewCall(fn, pc, node, overlays, rendered, err) == [fn |-> fn, pc |-> pc, node |-> node, overlays |-> overlays, rendered |-> rendered, err |-> err, pos |-> 0]

\* loadOverlays: each visible overlay is loaded inside its own try/catch
loadOverlaysSkipFailed(overlays) ==
    [loaded |-> {k \in 1..Len(overlays) : overlays[k].isVisible /\ overlays[k].loads},
     rejected |-> FALSE]

\* for (const overlay of imageOverlays) { if (!overlay.isVisible) continue ...
\* the index of the next visible overlay after pos, 0 at the end of the list
NextVisible(list, pos) == IF \E k \in (pos + 1)..Len(list) : list[k].isVisible THEN CHOOSE k \in (pos + 1)..Len(list) : list[k].isVisible /\ \A j \in (pos + 1)..(k - 1) : ~list[j].isVisible ELSE 0

\* an overlay loop from position pos to its next await (the load of the next
\* visible overlay) or, past the last overlay, to the code after the loop
OverlayLoopFrom(call, pos, after) == [call EXCEPT !.pos = NextVisible(call.overlays, pos), !.pc = IF NextVisible(call.overlays, pos) = 0 THEN after ELSE "overlays"]

ExportBackgroundCatch_Leak(body, container) == body

\* catch (error) { if (container.parentNode) document.body.removeChild(container) }
ExportBackgroundCatch(body, container) == IF container \in body THEN RemoveChild(body, container) ELSE body

\* the colour probe is created only past the early returns
ReachesProbe(oklchColor) ==
    /\ IncludesOklch(oklchColor)
    /\ OklchMatch(oklchColor) # 0
    /\ ValuesLength(oklchColor[OklchMatch(oklchColor)]) >= 3

NextNode == Len(calls) + 1

\* convertOklchToRGB: appendChild(tempEl), getComputedStyle, removeChild(tempEl)
ProbeColor ==
    /\ Len(calls) < MaxCalls
    /\ \E str \in {<<"rgb">>, <<"oklch2">>, <<"oklch3">>} :
         LET node == IF ReachesProbe(str) THEN NextNode ELSE 0
         IN /\ bodyNodes' = IF node = 0 THEN bodyNodes
                            ELSE RemoveChild(AppendChild(bodyNodes, node), node)
            /\ calls' = Append(calls, NewCall("convertOklchToRGB", "returned", node, <<>>, {}, "none"))
    /\ UNCHANGED <<storeVars, canvasVars, hookVars, edits, bitmapVars, laterVars>>

\* CanvasToolbar's loadOverlays effect up to its first await; without a
\* visible overlay it reaches setLoadedOverlayImages at once
LoadOverlays ==
    /\ Len(calls) < MaxCalls
    /\ \E overlays \in OverlayLists :
         calls' = Append(calls, OverlayLoopFrom(NewCall("loadOverlays", "overlays", 0, overlays, {}, "none"), 0, "returned"))
    /\ UNCHANGED <<storeVars, canvasVars, hookVars, edits, bitmapVars, bodyNodes, laterVars>>

\* exportBackground up to its first await
StartExportBackground ==
    /\ Len(calls) < MaxCalls
    /\ \E bgPresent \in BOOLEAN : \E cardPresent \in BOOLEAN : \E overlays \in OverlayLists :
         IF ~bgPresent
           THEN /\ calls' = Append(calls, NewCall("exportBackground", "thrown", 0, overlays, {}, "Canvas background element not found"))
                /\ UNCHANGED bodyNodes
           ELSE IF ~cardPresent
             THEN /\ calls' = Append(calls, NewCall("exportBackground", "thrown", NextNode, overlays, {}, "Canvas container not found"))
                  /\ bodyNodes' = ExportBackgroundCatch(AppendChild(bodyNodes, NextNode), NextNode)
             ELSE /\ calls' = Append(calls, OverlayLoopFrom(NewCall("exportBackground", "overlays", NextNode, overlays, {}, "none"), 0, "capture"))
                  /\ bodyNodes' = AppendChild(bodyNodes, NextNode)
    /\ UNCHANGED <<storeVars, canvasVars, hookVars, edits, bitmapVars, laterVars>>

\* the image a call awaits settles.  loadOverlays: onload stores the image,
\* onerror rejects into the catch inside the loop, and the loop goes on.
\* exportBackground: onload lets the overlay element be appended to the
\* container, onerror rejects and nothing inside the loop catches it
OverlaysSettled ==
    /\ \E i \in 1..Len(calls) :
         LET call == calls[i]
             ok == call.overlays[call.pos].loads
             loaded == [call EXCEPT !.rendered = IF ok THEN @ \cup {call.pos} ELSE @]
         IN /\ call.pc = "overlays"
            /\ IF call.fn = "loadOverlays"
                 THEN /\ calls' = [calls EXCEPT ![i] = OverlayLoopFrom(loaded, call.pos, "returned")]
                      /\ UNCHANGED bodyNodes
                 ELSE IF ok
                   THEN /\ calls' = [calls EXCEPT ![i] = OverlayLoopFrom(loaded, call.pos, "capture")]
                        /\ UNCHANGED bodyNodes
                   ELSE /\ calls' = [calls EXCEPT ![i].pc = "thrown", ![i].pos = 0, ![i].err = "Failed to load overlay image"]
                        /\ bodyNodes' = ExportBackgroundCatch(bodyNodes, call.node)
    /\ UNCHANGED <<storeVars, canvasVars, hookVars, edits, bitmapVars, laterVars>>

\* html2canvas(container) settles; on success the container is removed and
\* the noise overlay, when asked for, is awaited
BackgroundCaptured ==
    /\ \E i \in 1..Len(calls) : \E ok \in BOOLEAN : \E noise \in BOOLEAN :
         /\ calls[i].fn = "exportBackground" /\ calls[i].pc = "capture"
         /\ IF ok
              THEN /\ calls' = [calls EXCEPT ![i].pc = IF noise THEN "noise" ELSE "returned"]
                   /\ bodyNodes' = RemoveChild(bodyNodes, calls[i].node)
              ELSE /\ calls' = [calls EXCEPT ![i].pc = "thrown", ![i].err = "html2canvas"]
                   /\ bodyNodes' = ExportBackgroundCatch(bodyNodes, calls[i].node)
    /\ UNCHANGED <<storeVars, canvasVars, hookVars, edits, bitmapVars, laterVars>>

\* applyNoiseToCanvas settles, after the container was removed
NoiseApplied ==
    /\ \E i \in 1..Len(calls) : \E ok \in BOOLEAN :
         /\ calls[i].fn = "exportBackground" /\ calls[i].pc = "noise"
         /\ calls' = [calls EXCEPT ![i].pc = IF ok THEN "returned" ELSE "thrown", ![i].err = IF ok THEN "none" ELSE "applyNoiseToCanvas"]
         /\ bodyNodes' = IF ok THEN bodyNodes ELSE ExportBackgroundCatch(bodyNodes, calls[i].node)
    /\ UNCHANGED <<storeVars, canvasVars, hookVars, edits, bitmapVars, laterVars>>

\* capture3DTransformWithModernScreenshot up to its first await
StartCapture3D ==
    /\ Len(calls) < MaxCalls
    /\ \E containerPresent \in BOOLEAN : \E overlayPresent \in BOOLEAN :
         IF ~containerPresent \/ ~overlayPresent
           THEN /\ calls' = Append(calls, NewCall("capture3DTransformWithModernScreenshot", "thrown", 0, <<>>, {}, IF ~containerPresent THEN "Element not found" ELSE "3D overlay element not found"))
                /\ UNCHANGED bodyNodes
           ELSE /\ calls' = Append(calls, NewCall("capture3DTransformWithModernScreenshot", "capture", NextNode, <<>>, {}, "none"))
                /\ bodyNodes' = AppendChild(bodyNodes, NextNode)
    /\ UNCHANGED <<storeVars, canvasVars, hookVars, edits, bitmapVars, laterVars>>

\* domToCanvas settles; finally { document.body.removeChild(tempContainer) }
Capture3DSettled ==
    /\ \E i \in 1..Len(calls) : \E ok \in BOOLEAN :
         /\ calls[i].fn = "capture3DTransformWithModernScreenshot" /\ calls[i].pc = "capture"
         /\ calls' = [calls EXCEPT ![i].pc = IF ok THEN "returned" ELSE "thrown", ![i].err = IF ok THEN "none" ELSE "domToCanvas"]
         /\ bodyNodes' = RemoveChild(bodyNodes, calls[i].node)
    /\ UNCHANGED <<storeVars, canvasVars, hookVars, edits, bitmapVars, laterVars>>

NextDom ==
    \/ ProbeColor
    \/ LoadOverlays
    \/ StartExportBackground
    \/ OverlaysSettled
    \/ BackgroundCaptured
    \/ NoiseApplied
    \/ StartCapture3D
    \/ Capture3DSettled

SpecDom == Init /\ [][NextDom]_vars

(***************************************************************************)
(* The preferences table in IndexedDB and the settings of useExport.       *)
(* A call opens the database, then creates a transaction; transactions on  *)
(* the one object store run in the order of their creation.                *)
(***************************************************************************)
PREFS_KEY == "export-preferences"
Formats == {"png", "jpg"}
Qualities == {95, 80}
PrefScales == {3, 2}
SettingValues(field) == IF field = "format" THEN Formats ELSE IF field = "quality" THEN Qualities ELSE PrefScales

PrefsEntry_KeyPerFormat(prefs) == [id |-> prefs.format, format |-> prefs.format, quality |-> prefs.quality, scale |-> prefs.scale]

\* const entry = { id: "export-preferences", ...prefs }
PrefsEntry(prefs) == [id |-> PREFS_KEY, format |-> prefs.format, quality |-> prefs.quality, scale |-> prefs.scale]

\* store.put(entry) on an object store with keyPath "id"
StorePut(store, entry) == {r \in store : r.id # entry.id} \cup {entry}

\* store.get(key), and `entry || null`
StoreGet(store, key) ==
    IF \E r \in store : r.id = key
      THEN LET r == CHOOSE r \in store : r.id = key
           IN [format |-> r.format, quality |-> r.quality, scale |-> r.scale]
      ELSE NoPrefs

NewIdbCall(fn, prefs, mount) == [fn |-> fn, pc |-> "opening", prefs |-> prefs, mount |-> mount, result |-> NoPrefs, latest |-> NoPrefs]

\* the hook mounts: the state starts from the defaults and loadPreferences
\* calls getExportPreferences
MountUseExport ==
    /\ Len(idbCalls) < MaxIdbCalls
    /\ mountId' = mountId + 1
    /\ settings' = DEFAULT_SETTINGS
    /\ renderedSettings' = DEFAULT_SETTINGS
    /\ userSet' = NothingSet
    /\ idbCalls' = Append(idbCalls, NewIdbCall("get", NoPrefs, mountId + 1))
    /\ UNCHANGED <<prefsStore, idbQueue, lastSaved>>
    /\ UNCHANGED notPrefsVars

\* updateFormat / updateQuality / updateScale: the new settings are built
\* from the settings of the render that created the callback
UpdateSetting ==
    /\ mountId > 0
    /\ Len(idbCalls) < MaxIdbCalls
    /\ \E field \in SettingFields : \E value \in SettingValues(field) :
         LET newSettings == [renderedSettings EXCEPT ![field] = value]
         IN /\ settings' = newSettings
            /\ userSet' = [userSet EXCEPT ![field] = value]
            /\ idbCalls' = Append(idbCalls, NewIdbCall("save", newSettings, mountId))
    /\ UNCHANGED <<prefsStore, idbQueue, lastSaved, renderedSettings, mountId>>
    /\ UNCHANGED notPrefsVars

\* React renders the hook again: the callbacks now close over the state
RenderUseExport ==
    /\ mountId > 0
    /\ renderedSettings # settings
    /\ renderedSettings' = settings
    /\ UNCHANGED <<prefsStore, idbCalls, idbQueue, lastSaved, settings, userSet, mountId>>
    /\ UNCHANGED notPrefsVars

\* openDB settles: the call creates its transaction, or rejects
IdbOpened ==
    /\ \E i \in 1..Len(idbCalls) : \E ok \in BOOLEAN :
         /\ idbCalls[i].pc = "opening"
         /\ IF ok
              THEN /\ idbCalls' = [idbCalls EXCEPT ![i].pc = "queued"]
                   /\ idbQueue' = Append(idbQueue, i)
              ELSE /\ idbCalls' = [idbCalls EXCEPT ![i].pc = "rejected"]
                   /\ UNCHANGED idbQueue
    /\ UNCHANGED <<prefsStore, lastSaved, settings, renderedSettings, userSet, mountId>>
    /\ UNCHANGED notPrefsVars

\* the request of the oldest transaction succeeds or fails; a successful
\* get of the mounted hook's loadPreferences sets the settings
IdbRequestDone ==
    /\ idbQueue # <<>>
    /\ \E ok \in BOOLEAN :
         LET i == Head(idbQueue)
             call == idbCalls[i]
             found == StoreGet(prefsStore, PREFS_KEY)
         IN /\ idbQueue' = Tail(idbQueue)
            /\ IF ~ok
                 THEN /\ idbCalls' = [idbCalls EXCEPT ![i].pc = "rejected"]
                      /\ UNCHANGED <<prefsStore, lastSaved, settings>>
                 ELSE IF call.fn = "save"
                   THEN /\ prefsStore' = StorePut(prefsStore, PrefsEntry(call.prefs))
                        /\ lastSaved' = call.prefs
                        /\ idbCalls' = [idbCalls EXCEPT ![i].pc = "resolved"]
                        /\ UNCHANGED settings
                   ELSE /\ idbCalls' = [idbCalls EXCEPT ![i].pc = "resolved", ![i].result = found, ![i].latest = lastSaved]
                        /\ settings' = IF call.mount = mountId /\ found # NoPrefs THEN found ELSE settings
                        /\ UNCHANGED <<prefsStore, lastSaved>>
    /\ UNCHANGED <<renderedSettings, userSet, mountId>>
    /\ UNCHANGED notPrefsVars

\* exportElement: const mimeType = 'image/png', whatever options.format is
EncodedMimeType(format) == "image/png"

\* the extension that names the encoding of the bytes
ExtensionOf(mimeType) == IF mimeType = "image/jpeg" THEN "jpg" ELSE "png"

\* exportImage: `stage-${Date.now()}.${settings.format}`, and the format
\* handed to saveExportedImage
FileExtension(exportSettings) == exportSettings.format
PersistedFormat(exportSettings) == exportSettings.format

\* exportImage, as far as the format goes: it uses the settings of the
\* render that created the callback
ExportWithSettings ==
    /\ mountId > 0
    /\ lastCall' = [name |-> "exportImage",
                    format |-> renderedSettings.format,
                    mimeType |-> EncodedMimeType(renderedSettings.format),
                    extension |-> FileExtension(renderedSettings),
                    persisted |-> PersistedFormat(renderedSettings)]
    /\ UNCHANGED <<storeVars, canvasVars, hookVars, edits, canvases, pendingNoise, domVars>>
    /\ UNCHANGED prefsVars
    /\ UNCHANGED otherLaterVars

NextPrefs ==
    \/ ExportWithSettings
    \/ MountUseExport
    \/ UpdateSetting
    \/ RenderUseExport
    \/ IdbOpened
    \/ IdbRequestDone

SpecPrefs == Init /\ [][NextPrefs]_vars

(***************************************************************************)
(* CanvasRenderer's effect that publishes the stage.  It has no dependency *)
(* list: it runs after every render, after the cleanup of its last run.    *)
(***************************************************************************)
\* stageRef.current as the callback of renderer `instance` sees it: React
\* detaches the ref of an unmounted renderer
StageRefCurrent(mod, instance) == IF mod.mounted = instance THEN instance ELSE 0

\* updateStage: if (stageRef.current) globalKonvaStage = stageRef.current
updateStage(mod, instance) == IF StageRefCurrent(mod, instance) # 0 THEN [mod EXCEPT !.global = StageRefCurrent(mod, instance)] ELSE mod

EffectCleanup_KeepStage(mod, instance) == [mod EXCEPT !.timers = @ \ {instance}]

\* return () => { clearTimeout(timeout); globalKonvaStage = null }
EffectCleanup(mod, instance) == [mod EXCEPT !.timers = @ \ {instance}, !.global = 0]

\* updateStage(); const timeout = setTimeout(updateStage, 100)
EffectRun(mod, instance) == [updateStage(mod, instance) EXCEPT !.timers = @ \cup {instance}]

\* getKonvaStage()
getKonvaStage(mod) == mod.global

\* ClientCanvas gets an image: a CanvasRenderer mounts and its effect runs
MountRenderer ==
    /\ \E m \in StageModuleNames :
         LET mod == stageModules[m]
             instance == mod.made + 1
         IN /\ mod.mounted = 0
            /\ mod.made < MaxMounts
            /\ stageModules' = [stageModules EXCEPT ![m] = EffectRun([mod EXCEPT !.mounted = instance, !.made = instance], instance)]
    /\ UNCHANGED notStageVars

\* the mounted renderer renders again: cleanup of the last run, then the effect
RerenderRenderer ==
    /\ \E m \in StageModuleNames :
         LET mod == stageModules[m]
         IN /\ mod.mounted # 0
            /\ stageModules' = [stageModules EXCEPT ![m] = EffectRun(EffectCleanup(mod, mod.mounted), mod.mounted)]
    /\ UNCHANGED notStageVars

\* ClientCanvas loses its image: the renderer unmounts and the cleanup runs
UnmountRenderer ==
    /\ \E m \in StageModuleNames :
         LET mod == stageModules[m]
         IN /\ mod.mounted # 0
            /\ stageModules' = [stageModules EXCEPT ![m] = EffectCleanup([mod EXCEPT !.mounted = 0], mod.mounted)]
    /\ UNCHANGED notStageVars

\* a pending setTimeout(updateStage, 100) fires
StageTimeoutFires ==
    /\ \E m \in StageModuleNames : \E instance \in stageModules[m].timers :
         stageModules' = [stageModules EXCEPT ![m] = updateStage([stageModules[m] EXCEPT !.timers = @ \ {instance}], instance)]
    /\ UNCHANGED notStageVars

NextStage ==
    \/ MountRenderer
    \/ RerenderRenderer
    \/ UnmountRenderer
    \/ StageTimeoutFires

SpecStage == Init /\ [][NextStage]_vars

(***************************************************************************)
(* Collage editor: objects and undo history                                *)
(* (src/components/canvas/CanvasContext.tsx)                               *)
(*                                                                         *)
(* A canvas object is [id, rev, type, imageUrl]: rev stands for its        *)
(* properties, imageUrl is "id" for the key of a blob kept in IndexedDB    *)
(* and "blob" for a URL.  Every handler is followed by the re-render of    *)
(* the provider, so the objects that a callback captured are the objects   *)
(* of the state in which it was called; addImage keeps what it captured    *)
(* across its awaits.                                                      *)
(***************************************************************************)
\* the ids of the objects: 1.. are handed out by addText and addImage, 0 is
\* the object of a design given to loadDesign
ObjectIds == 0..MaxObjects
Revs == {0, 1}
EditOps == {"addText", "addImage", "transformObject", "deleteObject"}

TextObject(id) == [id |-> id, rev |-> 0, type |-> "text", imageUrl |-> "none"]

\* addImage(url) with a blob: URL: imageUrl is the id of the blob it stored
ImageObject(id) == [id |-> id, rev |-> 0, type |-> "image", imageUrl |-> "id"]

\* the object lists loadDesign is given as canvasData.objects
Designs == {<<>>, <<TextObject(0)>>, <<ImageObject(0)>>}

CollageOpRecord(name) == [name |-> name, objectsBefore |-> objects, historyBefore |-> history, prevName |-> collageOp.name, objectsBeforePrev |-> collageOp.objectsBefore, historyBeforePrev |-> collageOp.historyBefore]

\* saveState(): currentState = [...objects] is the list captured by the
\* callback, not the list the updater is producing
saveState(closure, h) == [past |-> Append(h.past, h.present), present |-> closure, future |-> <<>>]

\* prev.map(obj => obj.id === idToUpdate ? { ...obj, ...properties } : obj)
MapTransform(prev, id, rev) == [k \in 1..Len(prev) |-> IF prev[k].id = id THEN [prev[k] EXCEPT !.rev = rev] ELSE prev[k]]

\* prev.filter(obj => obj.id !== idToDelete)
FilterOut(prev, id) == SelectSeq(prev, LAMBDA obj : obj.id # id)

\* saveObjectsToStorage(objectsToSave): localStorage.setItem
SaveObjectsToStorage(objectsToSave) == <<objectsToSave>>

\* setObjects(prev => { updated = ...; saveState(); saveObjectsToStorage(updated);
\* return updated }) and the re-render that follows
ApplyEdit(name, closure, updated) ==
    /\ Len(history.past) < MaxHistory
    /\ objects' = updated
    /\ history' = saveState(closure, history)
    /\ savedObjects' = SaveObjectsToStorage(updated)
    /\ collageOp' = CollageOpRecord(name)

\* does a saved list hold an object whose image has to be loaded
AwaitsImages(list) == \E k \in 1..Len(list) : list[k].type = "image"

\* the saved images getBlobUrlFromStored can fail to find
StoredIds(list) == {list[k].id : k \in {j \in 1..Len(list) : list[j].imageUrl = "id"}}

\* restorePromises settled: an object whose blob is missing is skipped, a
\* restored image has the URL it was loaded from
ValidObjects(list, missing) ==
    LET kept == SelectSeq(list, LAMBDA obj : obj.id \notin missing)
    IN [k \in 1..Len(kept) |-> IF kept[k].type = "image" THEN [kept[k] EXCEPT !.imageUrl = "blob"] ELSE kept[k]]

\* what initializeCanvas and loadDesign do with the restored objects
Restored(kind, valid, h) ==
    IF kind = "initializeCanvas" THEN [h EXCEPT !.present = valid]
    ELSE [past |-> <<>>, present |-> valid, future |-> <<>>]

\* one more call of the editor
CollageCall ==
    /\ collageCalls < MaxCollageCalls
    /\ collageCalls' = collageCalls + 1

\* the page is loaded again: CanvasProvider starts from its initial state,
\* what was pending is gone, localStorage stays
ReloadPage ==
    /\ CollageCall
    /\ collageStage' = FALSE
    /\ objects' = <<>>
    /\ history' = EmptyHistory
    /\ pendingImages' = {}
    /\ pendingRestores' = <<>>
    /\ collageOp' = NoCollageOp
    /\ UNCHANGED <<nextObjectId, savedObjects, notCollageVars>>

\* initializeCanvas(stage, layer): a list without images is restored in the
\* microtasks of the call, a list with images when its images have settled
InitializeCanvas ==
    /\ CollageCall
    /\ collageStage' = TRUE
    /\ collageOp' = CollageOpRecord("initializeCanvas")
    /\ IF savedObjects = NotSaved
         THEN /\ history' = EmptyHistory
              /\ UNCHANGED <<objects, pendingRestores>>
       ELSE IF AwaitsImages(savedObjects[1])
         THEN /\ Len(pendingRestores) < MaxRestores
              /\ history' = EmptyHistory
              /\ pendingRestores' = Append(pendingRestores, [kind |-> "initializeCanvas", list |-> savedObjects[1]])
              /\ UNCHANGED objects
       ELSE /\ objects' = savedObjects[1]
            /\ history' = Restored("initializeCanvas", savedObjects[1], EmptyHistory)
            /\ UNCHANGED pendingRestores
    /\ UNCHANGED <<pendingImages, nextObjectId, savedObjects, notCollageVars>>

\* loadDesign(canvasData) with canvasData.objects an array
LoadDesign ==
    /\ CollageCall
    /\ collageStage
    /\ \E list \in Designs :
         IF AwaitsImages(list)
           THEN /\ Len(pendingRestores) < MaxRestores
                /\ pendingRestores' = Append(pendingRestores, [kind |-> "loadDesign", list |-> list])
                /\ UNCHANGED <<objects, history, savedObjects, collageOp>>
         ELSE /\ objects' = list
              /\ history' = Restored("loadDesign", list, history)
              /\ savedObjects' = SaveObjectsToStorage(list)
              /\ collageOp' = CollageOpRecord("loadDesign")
              /\ UNCHANGED pendingRestores
    /\ UNCHANGED <<pendingImages, nextObjectId, collageStage, notCollageVars>>

\* Promise.all(restorePromises) of initializeCanvas or loadDesign resolves
RestoreObjects ==
    /\ \E i \in 1..Len(pendingRestores) : \E missing \in SUBSET StoredIds(pendingRestores[i].list) :
         LET r == pendingRestores[i]
             valid == ValidObjects(r.list, missing)
         IN /\ pendingRestores' = SubSeq(pendingRestores, 1, i - 1) \o SubSeq(pendingRestores, i + 1, Len(pendingRestores))
            /\ objects' = valid
            /\ history' = Restored(r.kind, valid, history)
            /\ savedObjects' = IF r.kind = "loadDesign" THEN SaveObjectsToStorage(valid) ELSE savedObjects
            /\ collageOp' = CollageOpRecord(IF r.kind = "loadDesign" THEN "loadDesign" ELSE "restore")
    /\ UNCHANGED <<collageCalls, pendingImages, nextObjectId, collageStage, notCollageVars>>

\* an image of a saved list fails to load: Promise.all rejects, nothing is
\* restored
RestoreFailed ==
    /\ \E i \in 1..Len(pendingRestores) :
         pendingRestores' = SubSeq(pendingRestores, 1, i - 1) \o SubSeq(pendingRestores, i + 1, Len(pendingRestores))
    /\ UNCHANGED <<collageCalls, objects, pendingImages, nextObjectId, history, collageOp, collageStage, savedObjects, notCollageVars>>

\* history.save()
HistorySave ==
    /\ CollageCall
    /\ Len(history.past) < MaxHistory
    /\ history' = saveState(objects, history)
    /\ collageOp' = CollageOpRecord("save")
    /\ UNCHANGED <<objects, pendingImages, nextObjectId, collageStage, savedObjects, pendingRestores, notCollageVars>>

\* operations.addText
AddText ==
    /\ CollageCall
    /\ collageStage
    /\ nextObjectId < MaxObjects
    /\ nextObjectId' = nextObjectId + 1
    /\ ApplyEdit("addText", objects, Append(objects, TextObject(nextObjectId')))
    /\ UNCHANGED <<pendingImages, collageStage, pendingRestores, notCollageVars>>

\* operations.addImage up to its first await
AddImageStart ==
    /\ CollageCall
    /\ collageStage
    /\ nextObjectId < MaxObjects
    /\ nextObjectId' = nextObjectId + 1
    /\ pendingImages' = pendingImages \cup {[id |-> nextObjectId', closure |-> objects]}
    /\ UNCHANGED <<objects, history, collageOp, collageStage, savedObjects, pendingRestores, notCollageVars>>

\* operations.addImage after the image has loaded
AddImageLoaded ==
    /\ \E p \in pendingImages :
         /\ pendingImages' = pendingImages \ {p}
         /\ ApplyEdit("addImage", p.closure, Append(objects, ImageObject(p.id)))
    /\ UNCHANGED <<collageCalls, nextObjectId, collageStage, pendingRestores, notCollageVars>>

\* operations.addImage when the image fails: catch, console.error
AddImageFailed ==
    /\ \E p \in pendingImages : pendingImages' = pendingImages \ {p}
    /\ UNCHANGED <<collageCalls, objects, nextObjectId, history, collageOp, collageStage, savedObjects, pendingRestores, notCollageVars>>

\* operations.transformObject
TransformObject ==
    /\ CollageCall
    /\ collageStage
    /\ \E id \in ObjectIds, rev \in Revs :
         ApplyEdit("transformObject", objects, MapTransform(objects, id, rev))
    /\ UNCHANGED <<pendingImages, nextObjectId, collageStage, pendingRestores, notCollageVars>>

\* operations.deleteObject
DeleteObject ==
    /\ CollageCall
    /\ collageStage
    /\ \E id \in ObjectIds :
         ApplyEdit("deleteObject", objects, FilterOut(objects, id))
    /\ UNCHANGED <<pendingImages, nextObjectId, collageStage, pendingRestores, notCollageVars>>

\* undo
Undo ==
    /\ CollageCall
    /\ collageOp' = CollageOpRecord("undo")
    /\ IF Len(history.past) = 0
       THEN UNCHANGED <<objects, history, savedObjects>>
       ELSE LET previous == history.past[Len(history.past)]
            IN /\ history' = [past |-> SubSeq(history.past, 1, Len(history.past) - 1), present |-> previous, future |-> <<history.present>> \o history.future]
               /\ objects' = previous
               /\ savedObjects' = SaveObjectsToStorage(previous)
    /\ UNCHANGED <<pendingImages, nextObjectId, collageStage, pendingRestores, notCollageVars>>

\* redo
Redo ==
    /\ CollageCall
    /\ collageOp' = CollageOpRecord("redo")
    /\ IF Len(history.future) = 0
       THEN UNCHANGED <<objects, history, savedObjects>>
       ELSE LET next == Head(history.future)
            IN /\ history' = [past |-> Append(history.past, history.present), present |-> next, future |-> Tail(history.future)]
               /\ objects' = next
               /\ savedObjects' = SaveObjectsToStorage(next)
    /\ UNCHANGED <<pendingImages, nextObjectId, collageStage, pendingRestores, notCollageVars>>

NextCollage ==
    \/ ReloadPage
    \/ InitializeCanvas
    \/ LoadDesign
    \/ RestoreObjects
    \/ RestoreFailed
    \/ HistorySave
    \/ AddText
    \/ AddImageStart
    \/ AddImageLoaded
    \/ AddImageFailed
    \/ TransformObject
    \/ DeleteObject
    \/ Undo
    \/ Redo

SpecCollage == Init /\ [][NextCollage]_vars

(***************************************************************************)
(* Image overlays of the canvas renderer                                   *)
(* (src/components/canvas/CanvasToolbar.tsx, effect on [imageOverlays])    *)
(*                                                                         *)
(* An overlay is [id, isVisible].  A run of loadOverlays is                *)
(* [list, pos, loaded, done]: the list it iterates, the index of the       *)
(* overlay whose image it awaits, and its local loadedImages.              *)
(***************************************************************************)
OverlayIds == 1..MaxOverlays
\* the lists addImageOverlay, updateImageOverlay and removeImageOverlay leave
\* in the store (their definitions are not in src/lib/store/index.ts; the
\* data model gives an ordered list of overlays with an id and a visible flag)
ImageOverlayLists == {l \in UNION {[1..n -> [id : OverlayIds, isVisible : BOOLEAN]] : n \in 0..MaxOverlays} : \A j, k \in 1..Len(l) : l[j].id = l[k].id => j = k}

\* loadOverlays from a position of the loop to its next await, or to
\* setLoadedOverlayImages(loadedImages) at the end of the list
LoadOverlaysFrom(list, pos, loaded) == [list |-> list, pos |-> NextVisible(list, pos), loaded |-> loaded, done |-> NextVisible(list, pos) = 0]

\* setLoadedOverlayImages(loadedImages), once the run has left the loop
SetLoadedOverlayImages(run) == IF run.done THEN run.loaded ELSE loadedOverlayImages

\* the store replaces imageOverlays; the effect calls loadOverlays()
SetImageOverlays ==
    /\ Len(overlayRuns) < MaxOverlayRuns
    /\ \E list \in ImageOverlayLists :
         LET run == LoadOverlaysFrom(list, 0, {})
         IN /\ imageOverlays' = list
            /\ overlayRuns' = Append(overlayRuns, run)
            /\ loadedOverlayImages' = SetLoadedOverlayImages(run)
    /\ UNCHANGED notOverlayVars

\* img.onload (loadedImages[overlay.id] = img; resolve()) or img.onerror
\* (reject, caught and logged) of the image a run awaits
OverlayImageSettles ==
    /\ \E v \in 1..Len(overlayRuns), ok \in BOOLEAN :
         LET run == overlayRuns[v]
             loaded == IF ok THEN run.loaded \cup {run.list[run.pos].id} ELSE run.loaded
             after == LoadOverlaysFrom(run.list, run.pos, loaded)
         IN /\ ~run.done
            /\ overlayRuns' = [overlayRuns EXCEPT ![v] = after]
            /\ loadedOverlayImages' = SetLoadedOverlayImages(after)
    /\ UNCHANGED <<imageOverlays, notOverlayVars>>

NextOverlays ==
    \/ SetImageOverlays
    \/ OverlayImageSettles

SpecOverlays == Init /\ [][NextOverlays]_vars

(***************************************************************************)
(* useEditorStoreSync: the shadow (src/lib/store/index.ts)                 *)
(***************************************************************************)
NextShadow ==
    \/ setImageShadow(ShadowPatches)

SpecShadow == Init /\ [][NextShadow]_vars

(***************************************************************************)
(* Properties                                                              *)
(***************************************************************************)
Ops == {ops[i] : i \in 1..Len(ops)}
ExportOps == {op \in Ops : op.kind = "export"}
Has(log, ev) == \E k \in 1..Len(log) : log[k] = ev
\* every occurrence of a comes before every occurrence of b
Precedes(log, a, b) ==
    \A j, k \in 1..Len(log) : (log[j] = a /\ log[k] = b) => j < k
SideEffects == {"persist", "persisted", "analytics", "download"}
PipelineWork == {"rasterize", "resize", "capture", "paste", "toBlob", "toDataURL"}

\* C1: a call whose aspect-ratio key has no preset is rejected with
\* 'Invalid aspect ratio selected' without exportElement being called; a call
\* whose element lookup returned null, or whose stage handle is null, is
\* rejected with the matching message, and has done no rasterization, no 3D
\* capture and no encoding.
C1_PreconditionErrors ==
    \A op \in Ops :
        /\ getAspectRatioPreset(op.aspect) = NoPreset =>
              /\ op.pc = "rejected"
              /\ op.err.message = "Invalid aspect ratio selected"
              /\ ~op.calledExportElement
              /\ op.log = <<>>
        /\ (op.checked /\ op.element = 0) =>
              /\ op.pc = "rejected"
              /\ op.err.message =
                   "Image render card not found. Please ensure an image is uploaded."
              /\ \A w \in PipelineWork : ~Has(op.log, w)
        /\ (op.checked /\ op.element # 0 /\ op.konvaStage = 0) =>
              /\ op.pc = "rejected"
              /\ op.err.message = "Konva stage not found"
              /\ \A w \in PipelineWork : ~Has(op.log, w)

\* an export was started before the canvas was mounted and found no element
C1_Witness ==
    \E op \in Ops :
        /\ op.checked /\ op.element = 0 /\ op.konvaStage = 0
        /\ op.pc = "rejected" /\ op.thrown = 1

\* C2: once the 3D capture has failed (overlay node absent, or the capturer
\* threw) the call is never rejected for that reason: it goes on to the
\* encoding, and whenever the encoder delivers a blob and a non-degenerate
\* data URL, exportElement returns exactly that {dataURL, blob}.
C2_CaptureFailureAbsorbed ==
    \A op \in Ops :
      /\ op.err.source # "capture"
      /\ "capture" \in op.faults => op.captureFailed
      /\ op.captureFailed =>
            /\ op.pc \in {"blob_wait", "save_wait", "clip_wait", "resolved", "rejected"}
            /\ op.pc = "rejected" => op.err.source \in {"encode", "clipboard"}
            /\ (op.encoded.blob = "image/png"
                  /\ op.encoded.dataURL \notin {"", "data:,", "unset"})
                 => op.result = op.encoded

\* the capturer threw under an active transform and exportElement returned
C2_Witness ==
    \E op \in Ops :
        /\ op.transformActive = "yes" /\ "capture" \in op.faults
        /\ op.captureFailed
        /\ op.result.blob = "image/png"
        /\ op.pc = "resolved"

\* C3: while the canvas is mounted, the opacity rendered for the flat main
\* image is 0 if any of rotateX, rotateY, rotateZ, translateX, translateY is
\* non-zero or scale is not 1, and imageOpacity otherwise.
C3_FlatImageSuppressed ==
    image # NULL =>
        /\ Len(cards) > 0
        /\ cards[Len(cards)].attached
        /\ cards[Len(cards)].flatOpacity =
             IF \/ perspective3D.rotateX # 0 \/ perspective3D.rotateY # 0
                \/ perspective3D.rotateZ # 0 \/ perspective3D.translateX # 0
                \/ perspective3D.translateY # 0 \/ perspective3D.scale # 1
               THEN 0 ELSE imageOpacity

\* only the scale differs from identity and the flat image is hidden
C3_Witness ==
    /\ image # NULL
    /\ perspective3D = [IdentityPerspective EXCEPT !.scale = 2]
    /\ imageOpacity = 50
    /\ cards[Len(cards)].flatOpacity = 0

\* C4 (as claimed): a call that has passed step 2 of exportElement invoked
\* the 3D capturer if and only if the flat image was suppressed on the stage
\* it rasterized.
C4_CaptureIffSuppressed ==
    \A op \in Ops :
        op.captureAttempted # "na" =>
            (op.captureAttempted = "yes" <=> op.flatSuppressed = "yes")

\* C5: in the log of one exportImage call the rasterization precedes the 3D
\* paste, the paste precedes the encoding, and the persistence write, the
\* analytics event and the download come only after the data URL was
\* produced; a call rejected before or during encoding has none of the three.
C5_StepOrder ==
    \A op \in ExportOps :
        /\ Precedes(op.log, "rasterize", "paste")
        /\ Precedes(op.log, "resize", "paste")
        /\ Precedes(op.log, "paste", "toBlob")
        /\ Precedes(op.log, "rasterize", "toBlob")
        /\ Precedes(op.log, "toBlob", "toDataURL")
        /\ Has(op.log, "paste") => Has(op.log, "rasterize")
        /\ Has(op.log, "toBlob") => Has(op.log, "resize")
        /\ \A e \in SideEffects :
              /\ Has(op.log, e) => Has(op.log, "toDataURL")
              /\ Precedes(op.log, "toDataURL", e)
              /\ Has(op.log, e) => op.result # NoResult
        /\ (op.pc = "rejected"
              /\ op.err.source \in {"precondition", "raster", "encode", "validation"})
             => \A e \in SideEffects : ~Has(op.log, e)

\* a resolved export that went through every step, the 3D paste included
C5_Witness ==
    \E op \in ExportOps :
        /\ op.pc = "resolved"
        /\ Has(op.log, "paste") /\ Has(op.log, "persisted")
        /\ Has(op.log, "analytics") /\ Has(op.log, "download")

\* C6: when saveExportedImage rejected or the tracker threw under an
\* exportImage call, the call resolved, after triggering the download, and
\* no error reached the caller.
C6_SideEffectFailuresAbsorbed ==
    \A op \in ExportOps :
        (op.faults \cap {"persist", "analytics"}) # {} =>
            /\ op.pc = "resolved"
            /\ Has(op.log, "download")
            /\ op.thrown = 0
            /\ op.err = NoError

\* both the persistence write and the tracker failed under one export
C6_Witness ==
    \E op \in ExportOps :
        /\ {"persist", "analytics"} \subseteq op.faults
        /\ op.pc = "resolved"

\* C7: an exportImage call throws at most once; it is rejected exactly when
\* one Error reached the caller, and that error never stems from the 3D
\* capture, the persistence write or the analytics call, whatever failed
\* under the call.
C7_OneError ==
    \A op \in ExportOps :
        /\ op.thrown <= 1
        /\ op.pc = "rejected" <=> op.thrown = 1
        /\ op.pc = "rejected" =>
              /\ op.err.isError
              /\ op.err.message # ""
              /\ op.err.source \notin {"capture", "persist", "analytics"}
        /\ op.pc # "rejected" => op.err = NoError
        /\ op.pc = "resolved" => op.result # NoResult

\* an export whose capture failure was absorbed and which then was rejected
\* by the encoder
C7_Witness ==
    \E op \in ExportOps :
        /\ "capture" \in op.absorbed
        /\ op.pc = "rejected" /\ op.thrown = 1
        /\ op.err.source = "encode"

\* C8: at most one exportImage / copyImage call is in flight.
C8_NoOverlap == Cardinality(InFlight) <= 1

\* a second call is in flight after a first one has ended, with the export
\* dialog open and an image uploaded
C8_Witness ==
    /\ started = 2
    /\ Cardinality(InFlight) = 1
    /\ isExporting
    /\ exportDialogOpen
    /\ uploadedImageUrl # NULL

\* C9: what exportElement returns never has an empty or 'data:,' data URL
\* nor a null blob; when the encoder produced one of these the call is
\* rejected with the encoder's descriptive error.
C9_NoDegenerateResult ==
    \A op \in Ops :
        /\ op.result # NoResult =>
              /\ op.result.dataURL \notin {"", "data:,"}
              /\ op.result.blob # "null"
        /\ op.encoded.blob = "null" =>
              /\ op.pc = "rejected"
              /\ op.err.message = "Failed to create blob from canvas"
              /\ op.result = NoResult
        /\ op.encoded.dataURL \in {"", "data:,"} =>
              /\ op.pc = "rejected"
              /\ op.err.message = "Failed to generate image data URL"
              /\ op.result = NoResult

\* the encoder produced 'data:,' and the call was rejected
C9_Witness ==
    \E op \in Ops :
        /\ op.encoded.dataURL = "data:,"
        /\ op.encoded.blob = "image/png"
        /\ op.pc = "rejected"

\* C10: every helper call with a non-neutral parameter, the 3D paste
\* included, leaves its input canvas as it was and returns another canvas
\* object.
C10_AllReturnNewBitmap ==
    (lastCall.name # "none" /\ ~lastCall.neutral) =>
        /\ canvases[lastCall.input] = lastCall.before
        /\ lastCall.output # lastCall.input

\* C11: a helper called with its neutral parameter (blur 0, opacity 1, noise
\* 0) returns the canvas it was given, leaves its pixels as they were and
\* creates no canvas; so does the background post-processing when all three
\* parameters are neutral.
C11_NeutralIsIdentity ==
    (lastCall.name \in {"blur", "opacity", "noise", "background"}
       /\ lastCall.neutral) =>
        /\ lastCall.output = lastCall.input
        /\ canvases[lastCall.input] = lastCall.before
        /\ lastCall.allocated = 0

\* the background post-processing has just run with blur 0, noise 0 and
\* opacity 1 on a rasterized background
C11_Witness ==
    /\ lastCall.name = "background" /\ lastCall.neutral
    /\ lastCall.before = <<"raster">>
    /\ lastCall.output = lastCall.input

\* C12: on no canvas is a blur drawn over the noise overlay; an
\* exportBackground call with blur > 0 and noise > 0 whose helpers got their
\* 2D contexts returns a canvas with the blur applied and the noise over it,
\* and so does the stage's background layer when the noise texture is loaded.
C12_BlurBeforeNoise ==
    /\ \A c \in 1..Len(canvases) : Precedes(canvases[c], "blur", "noise")
    /\ (lastCall.name \in {"exportBackground", "stageBackground"}
          /\ lastCall.blur > 0 /\ lastCall.noise > 0 /\ lastCall.ctxOk) =>
            /\ Has(canvases[lastCall.output], "blur")
            /\ Has(canvases[lastCall.output], "noise")

\* exportBackground has returned a blurred background with noise over it
C12_Witness ==
    /\ lastCall.name = "exportBackground"
    /\ lastCall.blur > 0 /\ lastCall.noise > 0 /\ lastCall.ctxOk
    /\ Has(canvases[lastCall.output], "blur")
    /\ Has(canvases[lastCall.output], "noise")

\* C13 (as claimed): the canvas the stage is rasterized into is in neither
\* dimension smaller than the final canvas of exportWidth * scale by
\* exportHeight * scale, so that the final resize never scales up.
C13_RasterNotSmaller ==
    lastCall.name = "exportKonvaStage" =>
        /\ lastCall.temp.width >= lastCall.preset.width * lastCall.scale
        /\ lastCall.temp.height >= lastCall.preset.height * lastCall.scale

\* C14: the final canvas of an export measures exportWidth * scale by
\* exportHeight * scale, whether the 3D overlay was pasted, was not needed or
\* its capture failed.
C14_FinalSize ==
    lastCall.name = "exportKonvaStage" =>
        /\ lastCall.final.width = lastCall.preset.width * lastCall.scale
        /\ lastCall.final.height = lastCall.preset.height * lastCall.scale

\* an export at scale 2 whose 3D capture failed and whose stage canvas did
\* not have the final size
C14_Witness ==
    /\ lastCall.name = "exportKonvaStage"
    /\ lastCall.scale = 2 /\ lastCall.capture = "failed"
    /\ lastCall.temp # lastCall.final
    /\ lastCall.final = [width |-> 3840, height |-> 2160]

\* C15 (as claimed): the overlay is pasted at its live offset, and with its
\* live size, both multiplied by export size * scale / live size.
C15_PasteScaledLikeMain ==
    lastCall.name = "paste" =>
        LET r == lastCall.rect
            o == lastCall.overlayRect
            i == lastCall.innerRect
            p == lastCall.preset
        IN /\ r.scaledX.n * i.width
                 = (o.left - i.left) * p.width * lastCall.scale * r.scaledX.d
           /\ r.scaledY.n * i.height
                 = (o.top - i.top) * p.height * lastCall.scale * r.scaledY.d
           /\ r.scaledWidth * i.width = o.width * p.width * lastCall.scale
           /\ r.scaledHeight * i.height = o.height * p.height * lastCall.scale

HasOklchToken(str) == \E i \in 1..Len(str) : IsOklchToken(str[i])
ConvertCalls == {"convertOklchToRGB", "convertCSSStringToRGB"}

\* C16: whenever the input of the normalizer contains an oklch
\* token, its output contains none.
C16_NoOklchInOutput ==
    (lastCall.name \in ConvertCalls /\ HasOklchToken(lastCall.input)) =>
        ~HasOklchToken(lastCall.output)

\* the token the normalizer matched is not a colour: it has fewer than three
\* components, or components that are not numbers
Unparsable(piece) == piece \in {"oklch2", "oklchNaN"}

\* the browser computes no colour from an oklch value
LookupFails(browser) == browser \in {"unsupported", "empty"}

\* C17: the normalizer returns its input unchanged when the input has no
\* oklch token, when the token cannot be parsed, and when the computed-style
\* lookup fails or yields nothing.
C17_FailOpen ==
    /\ lastCall.name = "convertOklchToRGB" =>
          ((\/ OklchMatch(lastCall.input) = 0
            \/ Unparsable(lastCall.input[OklchMatch(lastCall.input)])
            \/ LookupFails(lastCall.browser))
             => lastCall.output = lastCall.input)
    /\ lastCall.name = "convertCSSStringToRGB" =>
          ((\/ \A i \in 1..Len(lastCall.input) :
                 IsOklchToken(lastCall.input[i]) => Unparsable(lastCall.input[i])
            \/ LookupFails(lastCall.browser))
             => lastCall.output = lastCall.input)

CallSettled(call) == call.pc \in {"returned", "thrown"}

\* C18: once a call of convertOklchToRGB, exportBackground or
\* capture3DTransformWithModernScreenshot has returned or thrown, the
\* temporary node it created is no longer a child of document.body.
C18_NoTempNodeLeft ==
    \A i \in 1..Len(calls) : CallSettled(calls[i]) => calls[i].node \notin bodyNodes

\* an exportBackground call threw after it had attached its container, and
\* a 3D capture returned after it had attached its own
C18_Witness ==
    /\ \E i \in 1..Len(calls) :
         /\ calls[i].fn = "exportBackground"
         /\ calls[i].pc = "thrown" /\ calls[i].node # 0
    /\ \E i \in 1..Len(calls) :
         /\ calls[i].fn = "capture3DTransformWithModernScreenshot"
         /\ calls[i].pc = "returned" /\ calls[i].node # 0

\* C19: an overlay whose image fails to load never makes the call fail, and
\* once the overlay images are settled every visible overlay whose image
\* loaded is rendered.
C19_FailedOverlaySkipped ==
    \A i \in 1..Len(calls) :
        /\ calls[i].err # "Failed to load overlay image"
        /\ (calls[i].fn \in {"loadOverlays", "exportBackground"} /\ calls[i].pc \in {"capture", "noise", "returned"})
             => calls[i].rendered = loadOverlaysSkipFailed(calls[i].overlays).loaded

CopyOps == {op \in Ops : op.kind = "copy"}

\* C20: a copyImage call that got its image on a platform without
\* navigator.clipboard.write is rejected with 'Clipboard API not supported',
\* and no copyImage call resolves without having written to the clipboard.
C20_ClipboardOrReject ==
    \A op \in CopyOps :
        /\ op.pc = "resolved" => Has(op.log, "clipboard_written")
        /\ "no_clipboard" \in op.faults =>
              /\ op.pc = "rejected"
              /\ (~HookResultInvalid(op.result.dataURL)) =>
                    (op.err.message = "Clipboard API not supported")

\* a copyImage call got its image and was rejected for want of the
\* clipboard API, having written nothing
C20_Witness ==
    \E op \in CopyOps :
        /\ "no_clipboard" \in op.faults
        /\ Has(op.log, "toDataURL")
        /\ ~Has(op.log, "clipboard_written")
        /\ op.pc = "rejected"
        /\ op.err.message = "Clipboard API not supported"

\* C21: the preferences table never holds a record under another key or
\* more than one record; it holds the values of the most recent completed
\* save, exactly one record once a save has completed, and a completed
\* getExportPreferences returned those values (null if nothing was saved).
C21_SingletonPreferences ==
    /\ \A r \in prefsStore : r.id = PREFS_KEY
    /\ Cardinality(prefsStore) <= 1
    /\ prefsStore = IF lastSaved = NoPrefs THEN {} ELSE {PrefsEntry(lastSaved)}
    /\ \A i \in 1..Len(idbCalls) :
         (idbCalls[i].fn = "get" /\ idbCalls[i].pc = "resolved") =>
             idbCalls[i].result = idbCalls[i].latest

\* two saves with different values have completed and a get that ran after
\* them returned the values of the second one
C21_Witness ==
    \E i, j, k \in 1..Len(idbCalls) :
        /\ i < j
        /\ idbCalls[i].fn = "save" /\ idbCalls[i].pc = "resolved"
        /\ idbCalls[j].fn = "save" /\ idbCalls[j].pc = "resolved"
        /\ idbCalls[i].prefs # idbCalls[j].prefs
        /\ lastSaved = idbCalls[j].prefs
        /\ idbCalls[k].fn = "get" /\ idbCalls[k].pc = "resolved"
        /\ idbCalls[k].result = idbCalls[j].prefs

\* C29: the settings of the mounted hook hold, for every field, the value
\* that updateFormat, updateQuality or updateScale was last given.
C29_UpdatesKept ==
    mountId > 0 =>
        \A field \in SettingFields :
            userSet[field] # NothingSet[field] => settings[field] = userSet[field]

\* C22: an export is encoded as PNG, and the extension of its file name and
\* the format stored with its blob name the encoding of its bytes.
C22_ExtensionNamesEncoding ==
    lastCall.name = "exportImage" =>
        /\ lastCall.mimeType = "image/png"
        /\ lastCall.extension = ExtensionOf(lastCall.mimeType)
        /\ lastCall.persisted = ExtensionOf(lastCall.mimeType)

\* C23: whenever isExporting is false no exportImage / copyImage call is in
\* flight, and whenever it is true it becomes false again: every call ends,
\* resolved or rejected, and its end resets the flag.
C23_BusyFlag == [](~isExporting => InFlight = {}) /\ (isExporting ~> ~isExporting)

\* a call was rejected and isExporting is false again
C23_Witness ==
    /\ ~isExporting
    /\ \E op \in Ops : op.pc = "rejected" /\ op.calledExportElement

\* C28: once no load of the main image is outstanding, the image state of
\* ClientCanvas is the image of the current screenshot.src, and null when
\* screenshot.src is null.
C28_CurrentImageShown == pendingLoads = NoLoads => image = screenshot.src

\* C24: in each module getKonvaStage() returns the stage of the mounted
\* renderer, and null when no renderer is mounted; it never returns the
\* stage of a renderer that has unmounted.
C24_StageOfMountedRenderer ==
    \A m \in StageModuleNames :
        getKonvaStage(stageModules[m]) = stageModules[m].mounted

\* a second renderer is mounted after the first one unmounted, its timeout
\* has fired, and getKonvaStage returns its stage
C24_Witness ==
    \E m \in StageModuleNames :
        /\ stageModules[m].made = 2
        /\ stageModules[m].mounted = 2
        /\ stageModules[m].timers = {}
        /\ getKonvaStage(stageModules[m]) = 2

\* C25: in the collage editor, an undo made right after addText, addImage,
\* transformObject or deleteObject leaves the objects list equal to the list
\* that operation found
C25_UndoRestoresBeforeEdit == (collageOp.name = "undo" /\ collageOp.prevName \in EditOps) => objects = collageOp.objectsBeforePrev

\* C26: an undo followed at once by a redo leaves objects and the past, present
\* and future stacks as the undo found them; undo with an empty past and redo
\* with an empty future change neither objects nor history
C26_UndoRedoRoundTrip == /\ (collageOp.name = "redo" /\ collageOp.prevName = "undo" /\ Len(collageOp.historyBeforePrev.past) > 0) => (objects = collageOp.objectsBeforePrev /\ history = collageOp.historyBeforePrev)
                         /\ (collageOp.name = "undo" /\ Len(collageOp.historyBefore.past) = 0) => (objects = collageOp.objectsBefore /\ history = collageOp.historyBefore)
                         /\ (collageOp.name = "redo" /\ Len(collageOp.historyBefore.future) = 0) => (objects = collageOp.objectsBefore /\ history = collageOp.historyBefore)
\* C27: once every run of loadOverlays has ended, loadedOverlayImages has an
\* image for each visible overlay of the current imageOverlays whose load
\* succeeded in the run started for that list
C27_LatestOverlaysShown == (overlayRuns # <<>> /\ \A v \in 1..Len(overlayRuns) : overlayRuns[v].done) => (overlayRuns[Len(overlayRuns)].loaded \subseteq loadedOverlayImages)

\* C30: after useEditorStoreSync ran for a change of imageShadow, the editor
\* store's shadow has its enabled, softness and colour, elevation is
\* max(|offsetX|, |offsetY|) and side follows the offsets
C30_ShadowInSync == shadowOp # "none" => (editorShadow.enabled = imageShadow.enabled /\ editorShadow.softness = imageShadow.blur /\ editorShadow.color = imageShadow.color /\ editorShadow.elevation = ElevationOf(imageShadow) /\ editorShadow.side = SideOf(imageShadow))
====
